---- MODULE Spec2Model ----
(***************************************************************************)
(* A model of the Augi personal assistant: the conversation memory         *)
(* (src/src/memory_manager.py), the user profile (src/src/user_profile.py),*)
(* the permission gate (src/src/permission_manager.py, file_manager.py,    *)
(* app_launcher.py) and the chat turn handlers (src/src/ai_assistant.py,   *)
(* src/streamlit_app.py).                                                  *)
(*                                                                         *)
(* Python strings are sequences of one-character strings, so that lower(), *)
(* the substring test and split() are computed and not assumed.            *)
(* Scores of search_by_keywords are kept in half units: 2 is Python's 1.0  *)
(* and 1 is Python's 0.5.                                                  *)
(***************************************************************************)
EXTENDS Integers, Sequences, FiniteSets, TLC

VARIABLES
    files,                \* memory/conversations/<session_id>.json : name -> content
    mtime,                \* the names of files, most recently written first
    current_session_file, \* memory/current_session.json
    profile_file,         \* memory/user_profile.json
    index_file,           \* memory/conversation_index.json
    index,                \* MemoryManager.index.index (ConversationIndex, in memory)
    now,                  \* datetime.now(): seconds, and minutes for the permission gate
    profile,              \* UserProfileManager.profile
    permissions,          \* PermissionManager.permissions
    temp_permissions,     \* PermissionManager.temp_permissions
    config_file,          \* config/permissions.json
    effects,              \* file accesses, process launches and search requests performed
    conversation_history, \* the in-process transcript of the chat front end
    session_file,         \* PersonalAIAssistant.session_file, NoId for None
    search_results_cache, \* WebSearcher.search_results_cache: the keys it holds
    front_end,            \* the program running: "cli" (main.py) or "streamlit"
    ops,                  \* the number of operations called so far
    last                  \* the last operation called, its arguments and its result

vars == <<files, mtime, current_session_file, profile_file, index_file, index, now,
          profile, permissions, temp_permissions, config_file, effects,
          conversation_history, session_file, search_results_cache, front_end, ops, last>>

memVars == <<files, mtime, current_session_file, profile_file, index_file, index>>

(***************************************************************************)
(* Python strings                                                          *)
(***************************************************************************)
\* str.lower()
Lower(s) ==
    LET UpperChars == <<"A","B","C","D","E","F","G","H","I","J","K","L","M",
                        "N","O","P","Q","R","S","T","U","V","W","X","Y","Z">>
        LowerChars == <<"a","b","c","d","e","f","g","h","i","j","k","l","m",
                        "n","o","p","q","r","s","t","u","v","w","x","y","z">>
        LowerChr(c) ==
            IF \E i \in 1..Len(UpperChars) : UpperChars[i] = c
            THEN LowerChars[CHOOSE i \in 1..Len(UpperChars) : UpperChars[i] = c]
            ELSE c
    IN  [i \in 1..Len(s) |-> LowerChr(s[i])]

\* the Python test  a in b  on strings
IsSubstr(a, b) ==
    \E i \in 0..(Len(b) - Len(a)) : SubSeq(b, i + 1, i + Len(a)) = a

\* str.split(): the maximal runs of non-blank characters
RECURSIVE SplitFrom(_, _, _)
SplitFrom(s, i, cur) ==
    IF i > Len(s)
    THEN IF cur = <<>> THEN <<>> ELSE <<cur>>
    ELSE IF s[i] = " "
         THEN IF cur = <<>> THEN SplitFrom(s, i + 1, <<>>)
                            ELSE <<cur>> \o SplitFrom(s, i + 1, <<>>)
         ELSE SplitFrom(s, i + 1, Append(cur, s[i]))

Split(s) == SplitFrom(s, 1, <<>>)

Range(f) == {f[i] : i \in DOMAIN f}

Min(a, b) == IF a < b THEN a ELSE b

(***************************************************************************)
(* Python dicts.  A dict whose iteration order the code depends on is a    *)
(* sequence of [k, v] entries in insertion order; the others are functions *)
(* over the set of their keys.                                             *)
(***************************************************************************)
Put(f, key, val) == [x \in (DOMAIN f) \cup {key} |-> IF x = key THEN val ELSE f[x]]

Remove(f, keys) == [x \in (DOMAIN f) \ keys |-> f[x]]

EmptyDict == [x \in {} |-> 0]

HasKey(d, key) == \E i \in DOMAIN d : d[i].k = key

Get(d, key) == d[CHOOSE i \in DOMAIN d : d[i].k = key].v

\* d[key] = val : an existing key keeps its place, a new key goes last
Set(d, key, val) ==
    IF HasKey(d, key)
    THEN [i \in DOMAIN d |-> IF d[i].k = key THEN [k |-> key, v |-> val] ELSE d[i]]
    ELSE Append(d, [k |-> key, v |-> val])

\* the sequence s without the entries equal to x
RECURSIVE Without(_, _)
Without(s, x) ==
    IF s = <<>> THEN <<>>
    ELSE IF Head(s) = x THEN Without(Tail(s), x)
         ELSE <<Head(s)>> \o Without(Tail(s), x)

(***************************************************************************)
(* ConversationIndex (src/src/memory_manager.py:9-86)                      *)
(***************************************************************************)
\* _load_index when the file is absent or unreadable: {"conversations": {}, "keywords": {}}
EmptyIndex == [conversations |-> EmptyDict, keywords |-> <<>>]

\* the session is entered only when the keyword is new to the index
IndexKeyword_new_only(kwdict, keyword, session_id) ==
    IF HasKey(kwdict, keyword) THEN kwdict ELSE Set(kwdict, keyword, <<session_id>>)

\* the test of line 55 left out: the session is appended every time
IndexKeyword_appended(kwdict, keyword, session_id) ==
    LET d1 == IF HasKey(kwdict, keyword) THEN kwdict ELSE Set(kwdict, keyword, <<>>)
    IN  Set(d1, keyword, Append(Get(d1, keyword), session_id))

\* lines 52-56 for one keyword
IndexKeyword(kwdict, keyword, session_id) ==
    LET d1 == IF HasKey(kwdict, keyword) THEN kwdict ELSE Set(kwdict, keyword, <<>>)
        bucket == Get(d1, keyword)
    IN  IF session_id \in Range(bucket)
        THEN d1
        ELSE Set(d1, keyword, Append(bucket, session_id))

\* the loop of lines 52-56
RECURSIVE IndexKeywords(_, _, _)
IndexKeywords(kwdict, keywords, session_id) ==
    IF keywords = <<>> THEN kwdict
    ELSE IndexKeywords(IndexKeyword(kwdict, Head(keywords), session_id),
                       Tail(keywords), session_id)

\* an add_conversation that rebuilds the buckets: the session leaves the bucket of
\* every keyword before its new keywords are indexed
add_conversation_rebuilt(idx, session_id, keywords, timestamp, message_count) ==
    [conversations |-> Put(idx.conversations, session_id,
                           [timestamp |-> timestamp, message_count |-> message_count,
                            keywords |-> keywords]),
     keywords      |-> IndexKeywords(
                          [i \in DOMAIN idx.keywords |->
                              [k |-> idx.keywords[i].k,
                               v |-> Without(idx.keywords[i].v, session_id)]],
                          keywords, session_id)]

\* an add_conversation that keeps the forward entry of a session it holds already
add_conversation_entry_kept(idx, session_id, keywords, timestamp, message_count) ==
    [conversations |-> IF session_id \in DOMAIN idx.conversations
                       THEN idx.conversations
                       ELSE Put(idx.conversations, session_id,
                                [timestamp |-> timestamp, message_count |-> message_count,
                                 keywords |-> keywords]),
     keywords      |-> IndexKeywords(idx.keywords, keywords, session_id)]

\* add_conversation, on the in-memory index (the file is written by the caller's action)
add_conversation(idx, session_id, keywords, timestamp, message_count) ==
    [conversations |-> Put(idx.conversations, session_id,
                           [timestamp |-> timestamp, message_count |-> message_count,
                            keywords |-> keywords]),
     keywords      |-> IndexKeywords(idx.keywords, keywords, session_id)]

\* matching_sessions[session_id] = matching_sessions.get(session_id, 0) + amount, for
\* each session_id of the bucket
RECURSIVE AddScores(_, _, _)
AddScores(ms, bucket, amount) ==
    LET session_id == Head(bucket)
        score == IF HasKey(ms, session_id) THEN Get(ms, session_id) ELSE 0
    IN  IF bucket = <<>> THEN ms
        ELSE AddScores(Set(ms, session_id, score + amount), Tail(bucket), amount)

ExactScore == 2

PartialScore == 1

\* lines 74-76: the direct match
DirectMatch(ms, kwdict, keyword_lower) ==
    IF HasKey(kwdict, keyword_lower)
    THEN AddScores(ms, Get(kwdict, keyword_lower), ExactScore)
    ELSE ms

\* the substring test made in one direction only
PartialTest_one_way(keyword_lower, indexed_keyword) ==
    IsSubstr(indexed_keyword, keyword_lower)

\* the test of line 80
PartialTest(keyword_lower, indexed_keyword) ==
    IsSubstr(keyword_lower, indexed_keyword) \/ IsSubstr(indexed_keyword, keyword_lower)

\* lines 79-82: the partial match, over the indexed keywords from position i on
RECURSIVE PartialMatch(_, _, _, _)
PartialMatch(ms, kwdict, keyword_lower, i) ==
    IF i > Len(kwdict) THEN ms
    ELSE PartialMatch(
            IF PartialTest(keyword_lower, kwdict[i].k)
            THEN AddScores(ms, kwdict[i].v, PartialScore)
            ELSE ms,
            kwdict, keyword_lower, i + 1)

\* lines 71-82: the scores, in the order the sessions were first met
RECURSIVE MatchingSessions(_, _, _)
MatchingSessions(ms, kwdict, keywords) ==
    IF keywords = <<>> THEN ms
    ELSE LET keyword_lower == Lower(Head(keywords))
         IN  MatchingSessions(
                PartialMatch(DirectMatch(ms, kwdict, keyword_lower), kwdict, keyword_lower, 1),
                kwdict, Tail(keywords))

\* a sort that is not stable: e goes before the entries that score the same
RECURSIVE InsertDesc_unstable(_, _)
InsertDesc_unstable(sorted, e) ==
    IF sorted = <<>> THEN <<e>>
    ELSE IF Head(sorted).v > e.v
         THEN <<Head(sorted)>> \o InsertDesc_unstable(Tail(sorted), e)
         ELSE <<e>> \o sorted

\* one step of sorted(..., reverse=True): e goes after the entries that score at least e.v
RECURSIVE InsertDesc(_, _)
InsertDesc(sorted, e) ==
    IF sorted = <<>> THEN <<e>>
    ELSE IF Head(sorted).v >= e.v
         THEN <<Head(sorted)>> \o InsertDesc(Tail(sorted), e)
         ELSE <<e>> \o sorted

\* line 85: sorted(matching_sessions.items(), key=score, reverse=True), a stable sort
RECURSIVE SortDesc(_, _)
SortDesc(sorted, rest) ==
    IF rest = <<>> THEN sorted
    ELSE SortDesc(InsertDesc(sorted, Head(rest)), Tail(rest))

\* search_by_keywords: the session ids, best first
search_by_keywords(idx, keywords) ==
    LET sorted_sessions == SortDesc(<<>>, MatchingSessions(<<>>, idx.keywords, keywords))
    IN  [i \in 1..Len(sorted_sessions) |-> sorted_sessions[i].k]

\* the total score search_by_keywords gives a session (0 when it is not met)
ScoreOf(idx, keywords, session_id) ==
    LET ms == MatchingSessions(<<>>, idx.keywords, keywords)
    IN  IF HasKey(ms, session_id) THEN Get(ms, session_id) ELSE 0

(***************************************************************************)
(* Values handed to the memory manager                                     *)
(***************************************************************************)
\* a Python str
Str(chars) == [t |-> "str", v |-> chars]

Msg(role, content) == [role |-> role, content |-> content]

S_ok == <<"o","k">>

\* the transcripts the callers hand over: none, "PLAN", "hi code" answered by "ok",
\* and one that is not well formed, its content a tuple of characters (json.dump
\* writes a tuple as a list, and a tuple has no lower())
Transcripts ==
    { <<>>,
      <<Msg("user", Str(<<"P","L","A","N">>))>>,
      <<Msg("user", Str(<<"h","i"," ","c","o","d","e">>)), Msg("assistant", Str(S_ok))>>,
      <<Msg("user", [t |-> "tuple", v |-> S_ok])>> }

\* a well-formed message sequence: {role, content} pairs of strings, role user or assistant
WellFormed(M) ==
    \A i \in 1..Len(M) : M[i].role \in {"user", "assistant"} /\ M[i].content.t = "str"

\* the session ids callers supply
SessionIds == {"s1"}

\* session_id=None, or the empty string: "if not session_id" takes both as no id
NoId == ""

MaxTime == 1

MaxOps == 2

MaxClearOps == 3

\* one more operation is called, of at most bound
Called(bound) == ops < bound /\ ops' = ops + 1

\* datetime.now().strftime("%Y%m%d_%H%M%S"), one id per second
strftime(t) == "20260101_00000" \o ToString(t)

(***************************************************************************)
(* JSON files                                                              *)
(***************************************************************************)
\* json.dump then json.load of the messages: a tuple comes back as a list
JsonMessages(M) ==
    [i \in 1..Len(M) |->
        [role |-> M[i].role,
         content |-> IF M[i].content.t = "tuple" THEN [t |-> "list", v |-> M[i].content.v]
                                                 ELSE M[i].content]]

\* a conversation file holding the dict of lines 123-128
RecordFile(timestamp, session_id, M) ==
    [kind |-> "dict", timestamp |-> timestamp, session_id |-> session_id,
     messages |-> JsonMessages(M), message_count |-> Len(M)]

\* a file cut short by a failed write: json.load raises JSONDecodeError on it
TruncatedFile ==
    [kind |-> "truncated", timestamp |-> 0, session_id |-> NoId,
     messages |-> <<>>, message_count |-> 0]

\* the single files: absent, truncated, or holding data
Absent(empty) == [kind |-> "absent", data |-> empty]

Holding(data) == [kind |-> "dict", data |-> data]

(***************************************************************************)
(* MemoryManager (src/src/memory_manager.py:90-467)                        *)
(***************************************************************************)
important_words == <<
    <<"p","y","t","h","o","n">>,
    <<"c","o","d","e">>,
    <<"h","e","l","p">>,
    <<"l","e","a","r","n">>,
    <<"p","r","o","j","e","c","t">>,
    <<"q","u","e","s","t","i","o","n">>,
    <<"e","r","r","o","r">>,
    <<"p","r","o","b","l","e","m">>,
    <<"s","o","l","u","t","i","o","n">>,
    <<"i","d","e","a">>,
    <<"d","i","s","c","u","s","s">>,
    <<"e","x","p","l","a","i","n">>,
    <<"h","o","w">>,
    <<"w","h","a","t">>,
    <<"w","h","y">>,
    <<"w","h","e","n">>,
    <<"w","h","e","r","e">>,
    <<"a","b","o","u","t">>,
    <<"l","i","k","e">>,
    <<"b","u","i","l","d">>,
    <<"c","r","e","a","t","e">>,
    <<"d","e","v","e","l","o","p">>,
    <<"d","e","s","i","g","n">>,
    <<"p","l","a","n">>,
    <<"w","o","r","k">>>>

MaxKeywords == 20

\* the keyword set built by the loop of lines 155-175: the vocabulary words found
\* in the lower-cased content (lines 166-168) and its two-word phrases of 6 to 49
\* characters (lines 171-175)
KeywordSet(messages) ==
    LET VocabularyHits(content) ==
            {important_words[i] : i \in {j \in 1..Len(important_words) :
                                            IsSubstr(important_words[j], content)}}
        Phrases(content) ==
            LET words == Split(content)
                phrase(i) == words[i] \o <<" ">> \o words[i + 1]
            IN  {phrase(i) : i \in {j \in 1..(Len(words) - 1) :
                                       Len(phrase(j)) > 5 /\ Len(phrase(j)) < 50}}
    IN  UNION {VocabularyHits(Lower(messages[i].content.v)) \cup
               Phrases(Lower(messages[i].content.v)) : i \in 1..Len(messages)}

\* line 156 raises AttributeError when a content has no lower()
ExtractRaises(messages) == \E i \in 1..Len(messages) : messages[i].content.t # "str"

\* line 177, list(keywords)[:20]: a set iterates in an order the build chooses
\* (string hashes are seeded per process), so every order is a possible result
_extract_keywords(messages) ==
    LET S == KeywordSet(messages)
        n == Min(Cardinality(S), MaxKeywords)
    IN  {s \in [1..n -> S] : \A i, j \in 1..n : i # j => s[i] # s[j]}

(***************************************************************************)
(* UserProfileManager (src/src/user_profile.py)                            *)
(***************************************************************************)
\* a Python collection of strings: a set, or the list that JSON gives back
SetOf(S) == [t |-> "set", s |-> S, l |-> <<>>]

ListOf(L) == [t |-> "list", s |-> {}, l |-> L]

Elems(c) == IF c.t = "set" THEN c.s ELSE Range(c.l)

\* None, or a str
None == [t |-> "none", v |-> <<>>]

\* _create_empty_profile, with the fields the model follows; location is the key
\* set_user_location adds, None while the key is absent
_create_empty_profile(t) ==
    [created |-> t, last_updated |-> t, preferred_name |-> None,
     interests |-> SetOf({}), skills |-> SetOf({}), preferences |-> {}, location |-> None]

\* lines 125-126, 130-131, 149-150, 160-161: a list is turned into a set first
AsSet(c) == IF c.t # "set" THEN SetOf(Range(c.l)) ELSE c

\* a merge that puts the new elements in the place of the old ones
SetUpdate_replace(c, S) == SetOf(S)

\* set.update / set.add
SetUpdate(c, S) == SetOf(AsSet(c).s \cup S)

\* update_profile: extracted is the dict handed over, has the set of its keys
update_profile(p, extracted, has, t) ==
    [p EXCEPT
        !.last_updated = t,
        !.preferred_name =
            IF "preferred_name" \in has /\ extracted.preferred_name.t = "str"
               /\ extracted.preferred_name.v # <<>>
            THEN extracted.preferred_name ELSE @,
        !.interests = IF "interests" \in has THEN SetUpdate(@, extracted.interests) ELSE @,
        !.skills = IF "skills" \in has THEN SetUpdate(@, extracted.skills) ELSE @,
        !.preferences = IF "preferences" \in has
                        THEN {q \in @ : \A n \in extracted.preferences : n.k # q.k}
                             \cup extracted.preferences
                        ELSE @]

add_interest(p, interest, t) ==
    [p EXCEPT !.interests = SetUpdate(@, {interest}), !.last_updated = t]

add_skill(p, skill, t) ==
    [p EXCEPT !.skills = SetUpdate(@, {skill}), !.last_updated = t]

\* set_preference
set_preference(p, key, value, t) ==
    [p EXCEPT !.preferences = {q \in @ : q.k # key} \cup {[k |-> key, v |-> value]},
              !.last_updated = t]

\* list(a_set): the elements in an order the build chooses
ListsOf(S) ==
    {s \in [1..Cardinality(S) -> S] : \A i, j \in 1..Cardinality(S) : i # j => s[i] # s[j]}

\* to_json_serializable: the sets become lists; the possible results
to_json_serializable(p) ==
    {[p EXCEPT !.interests = ListOf(li), !.skills = ListOf(ls)] :
        li \in (IF p.interests.t = "set" THEN ListsOf(p.interests.s) ELSE {p.interests.l}),
        ls \in (IF p.skills.t = "set" THEN ListsOf(p.skills.s) ELSE {p.skills.l})}

\* from_json_data: the lists become sets again
from_json_data(data) ==
    [data EXCEPT !.interests = AsSet(@), !.skills = AsSet(@)]

S_chess == <<"c","h","e","s","s">>

S_hiking == <<"h","i","k","i","n","g">>

\* the free-text facts the callers add
Facts == {S_chess, S_hiking, S_ok}

(***************************************************************************)
(* MemoryManager: the operations                                           *)
(***************************************************************************)
\* what a write can do: succeed, fail in open() (nothing is written), or fail in
\* json.dump after open(path, 'w') has emptied the file (a truncated file is left)
WriteFaults == {"none", "open", "dump"}

NoProfile ==
    [created |-> 0, last_updated |-> 0, preferred_name |-> None,
     interests |-> ListOf(<<>>), skills |-> ListOf(<<>>), preferences |-> {}, location |-> None]

NoSession == [timestamp |-> 0, messages |-> <<>>, message_count |-> 0]

\* with open(path, 'w') as f: json.dump(data, f), on one of the single files
WriteJson(old, data, fault) ==
    CASE fault = "none" -> Holding(data)
      [] fault = "open" -> old
      [] OTHER          -> [kind |-> "truncated", data |-> old.data]

\* the results of load_conversation
NotFound == [found |-> FALSE, raised |-> FALSE, messages |-> <<>>]

Found(messages) == [found |-> TRUE, raised |-> FALSE, messages |-> messages]

\* load_conversation reading a key the record does not have: get("message", [])
load_conversation_wrong_key(fs, session_id) ==
    IF session_id \notin DOMAIN fs THEN NotFound
    ELSE IF fs[session_id].kind = "truncated" THEN NotFound
    ELSE IF fs[session_id].kind # "dict"
         THEN [found |-> FALSE, raised |-> TRUE, messages |-> <<>>]
    ELSE Found(<<>>)

\* load_conversation (lines 180-199)
load_conversation(fs, session_id) ==
    IF session_id \notin DOMAIN fs THEN NotFound
    ELSE IF fs[session_id].kind = "truncated" THEN NotFound
    ELSE IF fs[session_id].kind # "dict"
         THEN [found |-> FALSE, raised |-> TRUE, messages |-> <<>>]
    ELSE Found(fs[session_id].messages)

\* the loop of lines 250-264: the summaries (lines 257-261) of the files that hold
\* a dict; the others are skipped
RECURSIVE Summaries(_, _)
Summaries(fs, names) ==
    LET data == fs[Head(names)]
    IN  IF names = <<>> THEN <<>>
        ELSE IF data.kind = "dict"
             THEN <<[session_id |-> data.session_id, timestamp |-> data.timestamp,
                     message_count |-> data.message_count]>> \o Summaries(fs, Tail(names))
             ELSE Summaries(fs, Tail(names))

\* list_conversations (lines 232-266): the newest limit files are taken (lines
\* 244-248) before any file is read
list_conversations(fs, order, limit) ==
    Summaries(fs, SubSeq(order, 1, Min(limit, Len(order))))

\* get_conversation_summary (lines 268-305).  A file that holds a list has no get():
\* line 285 raises AttributeError, which line 304 does not catch.
get_conversation_summary(fs, session_id) ==
    LET data == fs[session_id]
        messages == data.messages
        slice(content) == [content EXCEPT !.v = SubSeq(@, 1, Min(100, Len(@)))]
        users == {i \in 1..Len(messages) : messages[i].role = "user"}
        truthy == {i \in users : messages[i].content.v # <<>>}
        assistants == {i \in 1..Len(messages) : messages[i].role = "assistant"}
        first_user ==
            IF users = {} THEN None
            ELSE IF truthy = {}
                 THEN slice(messages[CHOOSE i \in users : \A j \in users : j <= i].content)
            ELSE slice(messages[CHOOSE i \in truthy : \A j \in truthy : i <= j].content)
        last_assistant ==
            IF assistants = {} THEN None
            ELSE slice(messages[CHOOSE i \in assistants : \A j \in assistants : j <= i].content)
        none == [found |-> FALSE, raised |-> FALSE,
                 summary |-> [session_id |-> NoId, timestamp |-> 0, message_count |-> 0,
                              first_message |-> None, last_response |-> None]]
    IN  IF session_id \notin DOMAIN fs THEN none
        ELSE IF data.kind = "truncated" THEN none
        ELSE IF data.kind # "dict" THEN [none EXCEPT !.raised = TRUE]
        ELSE [found |-> TRUE, raised |-> FALSE,
              summary |-> [session_id |-> session_id, timestamp |-> data.timestamp,
                           message_count |-> Len(messages),
                           first_message |-> first_user, last_response |-> last_assistant]]

\* search_conversations (lines 307-343), the loop of lines 320-341 over the files in
\* names, the order glob() gives them in; results is what the loop has collected.  A
\* truncated file is skipped (line 340); a file that holds a list has no get() and a
\* content that is no str has no lower(): AttributeError, which line 340 does not
\* catch.
RECURSIVE search_conversations(_, _, _, _, _)
search_conversations(fs, names, keyword, limit, results) ==
    LET data == fs[Head(names)]
        messages == data.messages
        met == {i \in 1..Len(messages) :
                   \/ messages[i].content.t # "str"
                   \/ IsSubstr(Lower(keyword), Lower(messages[i].content.v))}
        i == CHOOSE x \in met : \A y \in met : x <= y
        summary == [session_id |-> data.session_id, timestamp |-> data.timestamp,
                    message_count |-> Len(messages),
                    matched_content |-> SubSeq(messages[i].content.v, 1,
                                               Min(100, Len(messages[i].content.v)))]
        collected == IF met = {} THEN results ELSE Append(results, summary)
    IN  IF names = <<>> THEN [raised |-> FALSE, results |-> results]
        ELSE IF data.kind = "truncated"
             THEN search_conversations(fs, Tail(names), keyword, limit, results)
        ELSE IF data.kind # "dict" THEN [raised |-> TRUE, results |-> <<>>]
        ELSE IF met # {} /\ messages[i].content.t # "str"
             THEN [raised |-> TRUE, results |-> <<>>]
        ELSE IF Len(collected) >= limit THEN [raised |-> FALSE, results |-> collected]
        ELSE search_conversations(fs, Tail(names), keyword, limit, collected)

\* lines 428-431 left out: a query with no vocabulary word finds nothing
get_relevant_conversations_no_fallback(fs, order, idx, query, limit) ==
    LET keywords == SelectSeq(important_words, LAMBDA word : IsSubstr(word, Lower(query)))
        matching_sessions == search_by_keywords(idx, keywords)
        summaries == [i \in 1..Min(limit, Len(matching_sessions)) |->
                         get_conversation_summary(fs, matching_sessions[i])]
        found == SelectSeq(summaries, LAMBDA s : s.found)
    IN  IF \E i \in DOMAIN summaries : summaries[i].raised
        THEN [raised |-> TRUE, results |-> <<>>]
        ELSE [raised |-> FALSE, results |-> [i \in DOMAIN found |-> found[i].summary]]

\* the slice of line 437 left out: every matching session is summarised
get_relevant_conversations_all(fs, order, idx, query, limit) ==
    LET keywords == SelectSeq(important_words, LAMBDA word : IsSubstr(word, Lower(query)))
        matching_sessions == search_by_keywords(idx, keywords)
        summaries == [i \in 1..Len(matching_sessions) |->
                         get_conversation_summary(fs, matching_sessions[i])]
        found == SelectSeq(summaries, LAMBDA s : s.found)
    IN  IF keywords = <<>>
        THEN [raised |-> FALSE, results |-> list_conversations(fs, order, limit)]
        ELSE IF \E i \in DOMAIN summaries : summaries[i].raised
             THEN [raised |-> TRUE, results |-> <<>>]
        ELSE [raised |-> FALSE, results |-> [i \in DOMAIN found |-> found[i].summary]]

\* get_relevant_conversations (lines 403-442): the query's vocabulary words are
\* searched in the index, and a query with none of them is answered by the listing
get_relevant_conversations(fs, order, idx, query, limit) ==
    LET keywords == SelectSeq(important_words, LAMBDA word : IsSubstr(word, Lower(query)))
        matching_sessions == search_by_keywords(idx, keywords)
        summaries == [i \in 1..Min(limit, Len(matching_sessions)) |->
                         get_conversation_summary(fs, matching_sessions[i])]
        found == SelectSeq(summaries, LAMBDA s : s.found)
    IN  IF keywords = <<>>
        THEN [raised |-> FALSE, results |-> list_conversations(fs, order, limit)]
        ELSE IF \E i \in DOMAIN summaries : summaries[i].raised
             THEN [raised |-> TRUE, results |-> <<>>]
        ELSE [raised |-> FALSE, results |-> [i \in DOMAIN found |-> found[i].summary]]

\* load_user_profile (lines 354-367): {} when the file is absent or unreadable
load_user_profile(pf) ==
    IF pf.kind = "dict" THEN pf ELSE [kind |-> "empty", data |-> NoProfile]

\* _load_index (lines 21-29)
_load_index(xf) == IF xf.kind = "dict" THEN xf.data ELSE EmptyIndex

\* the file is written: it becomes the newest
Touch(order, name) == <<name>> \o Without(order, name)

MemLast(op, sid, id, msgs, confirm, raised, ret, prev) ==
    [op |-> op, sid |-> sid, id |-> id, msgs |-> msgs, confirm |-> confirm,
     raised |-> raised, ret |-> ret, prev |-> prev, had |-> {}]

\* the call ended in an exception
Failed(op) == MemLast(op, NoId, NoId, <<>>, FALSE, TRUE, FALSE, NotFound)

\* a write that appends the new messages to the record already stored
WriteRecord_append(fs, id, M, t, fault) ==
    CASE fault = "none" ->
            IF id \in DOMAIN fs /\ fs[id].kind = "dict"
            THEN Put(fs, id, [RecordFile(t, id, M) EXCEPT
                                !.messages = fs[id].messages \o JsonMessages(M),
                                !.message_count = fs[id].message_count + Len(M)])
            ELSE Put(fs, id, RecordFile(t, id, M))
      [] fault = "open" -> fs
      [] OTHER          -> Put(fs, id, TruncatedFile)

\* lines 130-131: the record file after the write
WriteRecord(fs, id, M, t, fault) ==
    CASE fault = "none" -> Put(fs, id, RecordFile(t, id, M))
      [] fault = "open" -> fs
      [] OTHER          -> Put(fs, id, TruncatedFile)

\* what a save can meet: no fault, or a failing write of the record or of the index
SaveFaults == {"none", "record_open", "record_dump", "index_open", "index_dump"}

\* save_conversation (lines 108-142)
save_conversation(M, sid, fault) ==
    LET id   == IF sid = NoId THEN strftime(now) ELSE sid
        prev == load_conversation(files, id)
        rfault == CASE fault = "record_open" -> "open"
                    [] fault = "record_dump" -> "dump"
                    [] OTHER -> "none"
        xfault == CASE fault = "index_open" -> "open"
                    [] fault = "index_dump" -> "dump"
                    [] OTHER -> "none"
    IN  /\ files' = WriteRecord(files, id, M, now, rfault)
        /\ mtime' = IF rfault = "open" THEN mtime ELSE Touch(mtime, id)
        /\ IF rfault # "none" \/ ExtractRaises(M)
           THEN \* the exception leaves save_conversation before the index is touched
                /\ xfault = "none"
                /\ UNCHANGED <<index, index_file>>
                /\ last' = [Failed("save_conversation") EXCEPT !.id = id, !.msgs = M]
           ELSE \E keywords \in _extract_keywords(M) :
                /\ index' = add_conversation(index, id, keywords, now, Len(M))
                /\ index_file' = WriteJson(index_file, index', xfault)
                /\ last' = IF xfault = "none"
                           THEN MemLast("save_conversation", sid, id, M, FALSE, FALSE, TRUE, prev)
                           ELSE [Failed("save_conversation") EXCEPT !.id = id, !.msgs = M]
        /\ UNCHANGED <<current_session_file, profile_file>>

SaveConversation(Ms, sids, faults, bound) ==
    /\ Called(bound)
    /\ \E M \in Ms, sid \in sids, fault \in faults :
          save_conversation(M, sid, fault)
    /\ UNCHANGED <<now, profile, permissions, temp_permissions, config_file, effects,
                   conversation_history,
                   session_file, search_results_cache, front_end>>

\* what a clear_memory can meet: no fault, or an unlink that fails
ClearFaults == {"none", "conversations", "current_session", "profile", "index"}

\* line 398 left out: the index object in memory is kept
ConversationIndex_kept(xf) == index

\* ConversationIndex(index_file) (lines 12-19): the index is read from its file
ConversationIndex(xf) == _load_index(xf)

\* the confirmation flag ignored
Confirmed_always(confirm) == TRUE

\* lines 378-379: nothing is cleared unless confirm is true
Confirmed(confirm) == confirm

\* clear_memory (lines 369-401).  fault names the unlink that raises, if any; deleted
\* is the set of conversation files already removed when the loop of lines 383-384
\* raises.  Whatever was removed before the exception stays removed.
clear_memory(confirm, fault, deleted) ==
    LET had == {"conversations" : x \in {1 : n \in DOMAIN files}}
               \cup {"current_session" : x \in {1 : n \in {current_session_file.kind} \ {"absent"}}}
               \cup {"profile" : x \in {1 : n \in {profile_file.kind} \ {"absent"}}}
               \cup {"index_file" : x \in {1 : n \in {index_file.kind} \ {"absent"}}}
               \cup {"index" : x \in {1 : n \in {index} \ {EmptyIndex}}}
        result(raised, ret) ==
            [MemLast("clear_memory", NoId, NoId, <<>>, confirm, raised, ret, NotFound)
                EXCEPT !.had = had]
        all == DOMAIN files
    IN  IF ~Confirmed(confirm)
        THEN /\ fault = "none" /\ deleted = {}
             /\ last' = result(FALSE, FALSE)
             /\ UNCHANGED memVars
        ELSE IF fault = "conversations"
        THEN /\ deleted # all
             /\ files' = Remove(files, deleted)
             /\ mtime' = SelectSeq(mtime, LAMBDA n : n \notin deleted)
             /\ last' = result(FALSE, FALSE)
             /\ UNCHANGED <<current_session_file, profile_file, index_file, index>>
        ELSE /\ deleted = all
             /\ files' = EmptyDict
             /\ mtime' = <<>>
             /\ fault = "current_session" => current_session_file.kind # "absent"
             /\ fault = "profile" => profile_file.kind # "absent"
             /\ fault = "index" => index_file.kind # "absent"
             /\ current_session_file' =
                    IF fault = "current_session" THEN current_session_file
                    ELSE Absent(NoSession)
             /\ profile_file' =
                    IF fault \in {"current_session", "profile"} THEN profile_file
                    ELSE Absent(NoProfile)
             /\ index_file' =
                    IF fault \in {"current_session", "profile", "index"} THEN index_file
                    ELSE Absent(EmptyIndex)
             /\ index' = IF fault = "none" THEN ConversationIndex(index_file') ELSE index
             /\ last' = result(FALSE, fault = "none")

ClearMemory(faults, bound) ==
    /\ Called(bound)
    /\ \E confirm \in BOOLEAN, deleted \in SUBSET (DOMAIN files), fault \in faults :
          clear_memory(confirm, fault, deleted)
    /\ UNCHANGED <<now, profile, permissions, temp_permissions, config_file, effects,
                   conversation_history,
                   session_file, search_results_cache, front_end>>

\* save_current_session (lines 201-214)
save_current_session(M, fault) ==
    /\ current_session_file' =
          WriteJson(current_session_file,
                    [timestamp |-> now, messages |-> JsonMessages(M), message_count |-> Len(M)],
                    fault)
    /\ last' = IF fault = "none"
               THEN MemLast("save_current_session", NoId, NoId, M, FALSE, FALSE, TRUE, NotFound)
               ELSE Failed("save_current_session")
    /\ UNCHANGED <<files, mtime, profile_file, index_file, index>>

SaveCurrentSession(Ms, faults, bound) ==
    /\ Called(bound)
    /\ \E M \in Ms, fault \in faults : save_current_session(M, fault)
    /\ UNCHANGED <<now, profile, permissions, temp_permissions, config_file, effects,
                   conversation_history,
                   session_file, search_results_cache, front_end>>

\* the profiles the callers store: what to_json_serializable gives for two profiles
StoredProfiles ==
    to_json_serializable(add_interest(_create_empty_profile(0), S_chess, 0))
    \cup to_json_serializable(add_skill(_create_empty_profile(0), S_ok, 0))

\* save_user_profile (lines 345-352)
save_user_profile(data, fault) ==
    /\ profile_file' = WriteJson(profile_file, data, fault)
    /\ last' = IF fault = "none"
               THEN MemLast("save_user_profile", NoId, NoId, <<>>, FALSE, FALSE, TRUE, NotFound)
               ELSE Failed("save_user_profile")
    /\ UNCHANGED <<files, mtime, current_session_file, index_file, index>>

SaveUserProfile(faults, bound) ==
    /\ Called(bound)
    /\ \E data \in StoredProfiles, fault \in faults : save_user_profile(data, fault)
    /\ UNCHANGED <<now, profile, permissions, temp_permissions, config_file, effects,
                   conversation_history,
                   session_file, search_results_cache, front_end>>

\* MemoryManager.__init__ (lines 93-106) in a new process: the index is read back
NewMemoryManager(bound) ==
    /\ Called(bound)
    /\ index' = ConversationIndex(index_file)
    /\ last' = MemLast("__init__", NoId, NoId, <<>>, FALSE, FALSE, TRUE, NotFound)
    /\ UNCHANGED <<files, mtime, current_session_file, profile_file, index_file>>
    /\ UNCHANGED <<now, profile, permissions, temp_permissions, config_file, effects,
                   conversation_history,
                   session_file, search_results_cache, front_end>>

\* a second passes
Tick ==
    /\ now < MaxTime
    /\ now' = now + 1
    /\ UNCHANGED <<files, mtime, current_session_file, profile_file, index_file, index,
                   profile, permissions, temp_permissions, config_file, effects,
                   conversation_history,
                   session_file, search_results_cache, front_end, ops, last>>

(***************************************************************************)
(* PermissionManager (src/src/permission_manager.py)                       *)
(***************************************************************************)
\* _set_default_permissions (lines 51-59): internet_access has no entry
DefaultPermissions ==
    [op \in {"file_read", "file_write", "file_delete", "app_launch", "system_command"} |->
        CASE op = "file_read"    -> "REQUIRE_CONFIRMATION"
          [] op = "file_write"   -> "REQUIRE_CONFIRMATION"
          [] op = "file_delete"  -> "DENY"
          [] op = "app_launch"   -> "REQUIRE_CONFIRMATION"
          [] OTHER               -> "DENY"]

(***************************************************************************)
(* The memory manager on its own                                           *)
(***************************************************************************)
MemInit ==
    /\ files = EmptyDict
    /\ mtime = <<>>
    /\ current_session_file = Absent(NoSession)
    /\ profile_file = Absent(NoProfile)
    /\ index_file = Absent(EmptyIndex)
    /\ index = EmptyIndex

RestInit ==
    /\ now = 0
    /\ profile = _create_empty_profile(0)
    /\ permissions = DefaultPermissions
    /\ temp_permissions = EmptyDict
    /\ config_file = Absent(DefaultPermissions)
    /\ effects = {}
    /\ conversation_history = <<>>
    /\ session_file = NoId
    /\ search_results_cache = {}
    /\ front_end = "cli"
    /\ ops = 0

Init ==
    /\ MemInit
    /\ RestInit
    /\ last = MemLast("init", NoId, NoId, <<>>, FALSE, FALSE, FALSE, NotFound)

Next ==
    \/ SaveConversation(Transcripts, SessionIds \cup {NoId}, SaveFaults, MaxOps)
    \/ SaveCurrentSession(Transcripts, WriteFaults, MaxOps)
    \/ SaveUserProfile(WriteFaults, MaxOps)
    \/ ClearMemory(ClearFaults, MaxOps)
    \/ NewMemoryManager(MaxOps)
    \/ Tick

Spec == Init /\ [][Next]_vars

(***************************************************************************)
(* Longer runs of the memory manager, with fewer inputs: saves of two      *)
(* transcripts, the profile and the session, then clear_memory             *)
(***************************************************************************)
ClearTranscripts == {M \in Transcripts : WellFormed(M) /\ Len(M) > 0}

ClearNext ==
    \/ SaveConversation(ClearTranscripts, SessionIds \cup {NoId}, {"none", "record_dump"},
                        MaxClearOps)
    \/ SaveCurrentSession(ClearTranscripts, {"none"}, MaxClearOps)
    \/ SaveUserProfile({"none", "dump"}, MaxClearOps)
    \/ ClearMemory(ClearFaults, MaxClearOps)
    \/ NewMemoryManager(MaxClearOps)
    \/ Tick

SpecClear == Init /\ [][ClearNext]_vars

(***************************************************************************)
(* One MemoryManager on an empty directory, where every write and every    *)
(* unlink succeeds: saves of well-formed transcripts and clear_memory      *)
(***************************************************************************)
StoreNext ==
    \/ SaveConversation({M \in Transcripts : WellFormed(M)}, SessionIds \cup {NoId}, {"none"},
                        MaxClearOps)
    \/ ClearMemory({"none"}, MaxClearOps)
    \/ Tick

SpecStore == Init /\ [][StoreNext]_vars

(***************************************************************************)
(* The keyword index on its own: add_conversation called with any keyword  *)
(* list                                                                    *)
(***************************************************************************)
S_python == <<"p","y","t","h","o","n">>

S_python_programming == <<"p","y","t","h","o","n"," ","p","r","o","g","r","a","m","m","i","n","g">>

MaxKeywordList == 2

\* the keyword lists handed to add_conversation: up to MaxKeywordList keywords of
\* "python", "python programming" and "Python", repeats allowed
KeywordLists ==
    LET IndexedWords == {S_python, S_python_programming, <<"P","y","t","h","o","n">>}
    IN  UNION {[1..n -> IndexedWords] : n \in 0..MaxKeywordList}

\* the session ids of the index
IndexIds == {"s1", "s2"}

MaxIndexOps == 2

IdxLast(op, id, keywords) == [op |-> op, id |-> id, keywords |-> keywords]

\* the message count handed to add_conversation: it is stored, and read by no search
IndexedCount == 2

\* add_conversation (lines 36-58) with its _save_index (lines 31-34)
AddConversation ==
    /\ Called(MaxIndexOps)
    /\ \E id \in IndexIds, K \in KeywordLists :
          /\ index' = add_conversation(index, id, K, now, IndexedCount)
          /\ index_file' = WriteJson(index_file, index', "none")
          /\ last' = IdxLast("add_conversation", id, K)
    /\ UNCHANGED <<files, mtime, current_session_file, profile_file, now, profile,
                   permissions, temp_permissions, config_file, effects,
                   conversation_history,
                   session_file, search_results_cache, front_end>>

IndexInit ==
    /\ MemInit
    /\ RestInit
    /\ last = IdxLast("init", NoId, <<>>)

SpecIndex == IndexInit /\ [][AddConversation]_vars

(***************************************************************************)
(* Properties of the memory manager                                        *)
(***************************************************************************)
MaxLimit == 2

\* C1: round trip.  When save_conversation(M, id) has returned for a session id the
\* caller supplied and a well-formed M, load_conversation(id) returns exactly M.
C1_RoundTrip ==
    (last.op = "save_conversation" /\ last.ret /\ last.sid # NoId /\ WellFormed(last.msgs))
        => load_conversation(files, last.sid) = Found(last.msgs)

C1_Witness ==
    /\ last.op = "save_conversation" /\ last.ret /\ last.sid # NoId
    /\ WellFormed(last.msgs) /\ Len(last.msgs) = 2
    /\ load_conversation(files, last.sid).found

\* C2: overwrite in full.  When a save under an id that already had a record has
\* returned, load_conversation(id) returns exactly the messages of that last save, and
\* exactly one stored record carries the id.
C2_Overwrite ==
    (last.op = "save_conversation" /\ last.ret /\ last.prev.found)
        => /\ load_conversation(files, last.id) = Found(last.msgs)
           /\ Cardinality({n \in DOMAIN files :
                              files[n].kind = "dict" /\ files[n].session_id = last.id}) = 1

C2_Witness ==
    /\ last.op = "save_conversation" /\ last.ret /\ last.prev.found
    /\ Len(last.prev.messages) > Len(last.msgs)
    /\ Len(last.msgs) > 0

\* C6: listing skips a corrupt record.  With one truncated file among N valid records,
\* N not above the limit, list_conversations(limit) returns the N valid summaries,
\* newest first, whatever the order of the modification times.
C6_ListReturnsAllValid ==
    \A limit \in 1..MaxLimit :
        LET valid   == {n \in DOMAIN files : files[n].kind = "dict"}
            corrupt == (DOMAIN files) \ valid
        IN  (Cardinality(corrupt) = 1 /\ Cardinality(valid) <= limit)
                => list_conversations(files, mtime, limit)
                     = Summaries(files, SelectSeq(mtime, LAMBDA n : n \in valid))

\* C7: after clear_memory(confirm=True) has returned True, the listing is empty, no
\* session id loads, the stored profile is the empty one, and the index is empty in
\* both maps, so that no query finds a session.
C7_ClearEmptiesAll ==
    LET AllIds == SessionIds \cup {strftime(t) : t \in 0..MaxTime}
        Queries == UNION {KeywordSet(M) : M \in {T \in Transcripts : WellFormed(T)}}
    IN
    (last.op = "clear_memory" /\ last.confirm /\ last.ret)
        => /\ \A limit \in 1..MaxLimit : list_conversations(files, mtime, limit) = <<>>
           /\ \A id \in AllIds : load_conversation(files, id) = NotFound
           /\ load_user_profile(profile_file).kind = "empty"
           /\ index.conversations = EmptyDict
           /\ index.keywords = <<>>
           /\ \A q \in Queries : search_by_keywords(index, <<q>>) = <<>>

C7_Witness ==
    /\ last.op = "clear_memory" /\ last.confirm /\ last.ret
    /\ {"conversations", "profile", "index", "index_file"} \subseteq last.had

\* C8: clear_memory without confirmation returns False and changes neither the
\* conversation files, the current-session file, the profile file, the index file
\* nor the index in memory.
C8_NoConfirmNoChange ==
    [][(last'.op = "clear_memory" /\ ~last'.confirm)
          => (~last'.ret /\ UNCHANGED memVars)]_vars

C8_Witness ==
    /\ last.op = "clear_memory" /\ ~last.confirm /\ ~last.ret
    /\ {"conversations", "profile", "index", "index_file"} \subseteq last.had
    /\ DOMAIN files # {}
    /\ profile_file.kind = "dict"

\* C17 as stated: once a conversation s is saved and a message of s contains the term
\* t, get_relevant_conversations(t, limit) returns a summary for s whenever at most
\* limit-1 other saved conversations mention t.
C17_RelevantReturnsSession ==
    \A s \in DOMAIN files, t \in {<<"h","i">>, <<"o","k">>, <<"p","l","a","n">>, <<"c","o","d","e">>}, limit \in 1..MaxLimit :
        LET mentions(n) ==
                /\ files[n].kind = "dict"
                /\ \E i \in DOMAIN files[n].messages :
                      /\ files[n].messages[i].content.t = "str"
                      /\ IsSubstr(Lower(t), Lower(files[n].messages[i].content.v))
            others == {n \in (DOMAIN files) \ {s} : mentions(n)}
            relevant == get_relevant_conversations(files, mtime, index, t, limit)
        IN  (mentions(s) /\ Cardinality(others) <= limit - 1)
                => /\ ~relevant.raised
                   /\ \E i \in DOMAIN relevant.results : relevant.results[i].session_id = s

\* C17 amended: once a conversation s is saved and a message of s contains the term
\* t, where t contains no word of the vocabulary, get_relevant_conversations(t, limit)
\* returns a summary for s whenever at most limit-1 other files are in the
\* conversations directory.
C17_FallbackReturnsSession ==
    \A s \in DOMAIN files, t \in {<<"h","i">>, <<"o","k">>, <<"p","l","a","n">>, <<"c","o","d","e">>}, limit \in 1..MaxLimit :
        LET mentions(n) ==
                /\ files[n].kind = "dict"
                /\ \E i \in DOMAIN files[n].messages :
                      /\ files[n].messages[i].content.t = "str"
                      /\ IsSubstr(Lower(t), Lower(files[n].messages[i].content.v))
            vocabulary == \E i \in DOMAIN important_words : IsSubstr(important_words[i], Lower(t))
            relevant == get_relevant_conversations(files, mtime, index, t, limit)
        IN  (mentions(s) /\ ~vocabulary /\ Cardinality((DOMAIN files) \ {s}) <= limit - 1)
                => /\ ~relevant.raised
                   /\ \E i \in DOMAIN relevant.results : relevant.results[i].session_id = s

C17_Witness ==
    /\ Len(mtime) = 2
    /\ files[mtime[1]].kind = "dict"
    /\ files[mtime[2]].kind = "dict"
    /\ \E i \in DOMAIN files[mtime[2]].messages :
          /\ files[mtime[2]].messages[i].content.t = "str"
          /\ IsSubstr(<<"h","i">>, Lower(files[mtime[2]].messages[i].content.v))
    /\ get_relevant_conversations(files, mtime, index, <<"h","i">>, 2).results[2].session_id = mtime[2]

\* C22: get_relevant_conversations(query, limit), for a limit that is a count.  When
\* the lower-cased query contains no vocabulary word the result is list_conversations(
\* limit).  Otherwise the result is made of the sessions search_by_keywords returns for
\* the vocabulary words found in the query: the first limit sessions of the ranking
\* whose record can be read, in the order of the ranking.  Either way at most limit
\* entries are returned.
C22_FallbackOrRanking ==
    \A query \in {<<"h","i">>, <<"C","o","d","e">>, <<"p","l","a","n"," ","c","o","d","e">>}, limit \in 0..MaxLimit :
        LET words == {w \in Range(important_words) : IsSubstr(w, Lower(query))}
            ranking == search_by_keywords(index,
                           SelectSeq(important_words, LAMBDA w : w \in words))
            first == SubSeq(ranking, 1, Min(limit, Len(ranking)))
            readable == SelectSeq(first, LAMBDA s : s \in DOMAIN files /\ files[s].kind = "dict")
            relevant == get_relevant_conversations(files, mtime, index, query, limit)
        IN  ~relevant.raised
                => /\ Len(relevant.results) <= limit
                   /\ words = {} => relevant.results = list_conversations(files, mtime, limit)
                   /\ words # {} => [i \in DOMAIN relevant.results |->
                                        relevant.results[i].session_id] = readable

C22_Witness ==
    LET relevant == get_relevant_conversations(files, mtime, index, <<"p","l","a","n"," ","c","o","d","e">>, 2)
    IN  /\ Len(mtime) = 2
        /\ Len(relevant.results) = 2
        /\ relevant.results[1].session_id = mtime[2]
        /\ Len(get_relevant_conversations(files, mtime, index, <<"p","l","a","n"," ","c","o","d","e">>, 1).results) = 1
        /\ Len(get_relevant_conversations(files, mtime, index, <<"h","i">>, 1).results) = 1

\* C23: a save is one transaction.  After save_conversation was called for a session,
\* whether it returned or a write of the record file or of the index file failed,
\* the stored record, the forward entry of the index in memory and the forward entry
\* of the index file either all reflect the messages of the call or none does.
C23_SaveIsTransaction ==
    (last.op = "save_conversation")
        => LET M == last.msgs
               entry(idx) ==
                   /\ last.id \in DOMAIN idx.conversations
                   /\ idx.conversations[last.id].message_count = Len(M)
                   /\ ~ExtractRaises(M)
                   /\ idx.conversations[last.id].keywords \in _extract_keywords(M)
               record == /\ last.id \in DOMAIN files
                         /\ files[last.id].kind = "dict"
                         /\ files[last.id].messages = JsonMessages(M)
               in_memory == entry(index)
               on_disk == index_file.kind = "dict" /\ entry(index_file.data)
           IN  (record /\ in_memory /\ on_disk) \/ (~record /\ ~in_memory /\ ~on_disk)

C29_StoreIndexAgree ==
    /\ DOMAIN index.conversations = {n \in DOMAIN files : files[n].kind = "dict"}
    /\ \A s \in DOMAIN index.conversations :
          /\ index.conversations[s].timestamp = files[s].timestamp
          /\ index.conversations[s].message_count = files[s].message_count

C29_Witness ==
    /\ last.op = "save_conversation"
    /\ last.prev.found
    /\ Len(last.prev.messages) # Len(last.msgs)
    /\ index.conversations[last.id].message_count = Len(last.msgs)
    /\ index.conversations[last.id].timestamp = 1
    /\ Cardinality(DOMAIN files) = 2

(***************************************************************************)
(* Properties of the keyword index                                         *)
(***************************************************************************)
\* the bucket of a keyword, as a set of session ids
Bucket(idx, keyword) ==
    IF HasKey(idx.keywords, keyword) THEN Range(Get(idx.keywords, keyword)) ELSE {}

\* C3 as stated: after add_conversation(id, K, t, n), for any keyword list K, every
\* keyword k of K finds id through search_by_keywords([k]).
C3_AnyKeywordFindsSession ==
    (last.op = "add_conversation")
        => \A i \in 1..Len(last.keywords) :
              last.id \in Range(search_by_keywords(index, <<last.keywords[i]>>))

\* C3 amended: after add_conversation(id, K, t, n) with K a list of lower-cased
\* keywords, every keyword k of K finds id through search_by_keywords([k]).
C3_LowerKeywordFindsSession ==
    (last.op = "add_conversation"
        /\ \A i \in 1..Len(last.keywords) : Lower(last.keywords[i]) = last.keywords[i])
        => \A i \in 1..Len(last.keywords) :
              last.id \in Range(search_by_keywords(index, <<last.keywords[i]>>))

C3_Witness ==
    /\ last.op = "add_conversation"
    /\ last.keywords = <<S_python, S_python_programming>>
    /\ Bucket(index, S_python) = IndexIds
    /\ last.id \in Range(search_by_keywords(index, <<S_python_programming>>))

\* the buckets of the scenario: "python programming" holds A, "python" holds B
ScenarioBuckets ==
    /\ {index.keywords[i].k : i \in DOMAIN index.keywords} = {S_python, S_python_programming}
    /\ Bucket(index, S_python_programming) = {"s1"}
    /\ Bucket(index, S_python) = {"s2"}

\* C4 as stated: with these buckets, search_by_keywords(["python"]) scores A at 0.5
\* and B at 1.0, and returns B before A.
C4_ExactScoresOne ==
    ScenarioBuckets
        => /\ ScoreOf(index, <<S_python>>, "s1") = PartialScore
           /\ ScoreOf(index, <<S_python>>, "s2") = ExactScore
           /\ search_by_keywords(index, <<S_python>>) = <<"s2", "s1">>

\* C4 amended: with these buckets, search_by_keywords(["python"]) scores A at 0.5 and
\* B at 1.5 (1.0 for the exact bucket and 0.5 more, the exact key passing the
\* substring test too), and returns B before A.
C4_ExactScoresOneAndAHalf ==
    ScenarioBuckets
        => /\ ScoreOf(index, <<S_python>>, "s1") = PartialScore
           /\ ScoreOf(index, <<S_python>>, "s2") = ExactScore + PartialScore
           /\ search_by_keywords(index, <<S_python>>) = <<"s2", "s1">>

C4_Witness ==
    /\ ScenarioBuckets
    /\ index.keywords[1].k = S_python_programming
    /\ search_by_keywords(index, <<S_python>>) = <<"s2", "s1">>

\* C18: the inverted map is the inversion of the forward map.  Session s is in the
\* bucket of keyword k if and only if k is in the keyword list of the forward entry
\* of s.
C18_InvertedIsInversion ==
    LET forward(s) == IF s \in DOMAIN index.conversations
                      THEN Range(index.conversations[s].keywords) ELSE {}
        keywords == {index.keywords[i].k : i \in DOMAIN index.keywords}
                    \cup UNION {forward(s) : s \in IndexIds}
    IN  \A s \in IndexIds, k \in keywords : s \in Bucket(index, k) <=> k \in forward(s)

\* C20: search_by_keywords(Q) returns, once each, exactly the sessions whose total
\* score is not zero, where each keyword q of Q, lower-cased, adds 1.0 for the bucket
\* whose key equals q and 0.5 for every bucket whose key contains q or is contained in
\* q; a session comes before every session of a lower total, and among sessions of
\* the same total the one met first in the walk over the buckets comes first.
C20_RankedByTotalScore ==
    LET QueryWords == {S_python, S_python_programming, <<"P","y","t","h","o","n">>}
        Queries == UNION {[1..n -> QueryWords] : n \in 0..2}
        key(j) == index.keywords[j].k
        in(s, j) == s \in Range(index.keywords[j].v)
        Gain(q, s) ==
            (IF \E j \in DOMAIN index.keywords : key(j) = q /\ in(s, j) THEN ExactScore ELSE 0)
            + PartialScore * Cardinality({j \in DOMAIN index.keywords :
                                            /\ IsSubstr(q, key(j)) \/ IsSubstr(key(j), q)
                                            /\ in(s, j)})
        Total(Q, s) ==
            (IF Len(Q) >= 1 THEN Gain(Lower(Q[1]), s) ELSE 0)
            + (IF Len(Q) >= 2 THEN Gain(Lower(Q[2]), s) ELSE 0)
        \* the walk over the buckets: keyword by keyword, the bucket of the equal key
        \* and then the buckets of the matching keys in the order of the index
        RECURSIVE Matching(_, _)
        Matching(q, j) ==
            IF j > Len(index.keywords) THEN <<>>
            ELSE (IF IsSubstr(q, key(j)) \/ IsSubstr(key(j), q)
                  THEN index.keywords[j].v ELSE <<>>) \o Matching(q, j + 1)
        Walk(q) ==
            (IF HasKey(index.keywords, q) THEN Get(index.keywords, q) ELSE <<>>)
            \o Matching(q, 1)
        Visits(Q) ==
            (IF Len(Q) >= 1 THEN Walk(Lower(Q[1])) ELSE <<>>)
            \o (IF Len(Q) >= 2 THEN Walk(Lower(Q[2])) ELSE <<>>)
        FirstMet(Q, s) == CHOOSE p \in DOMAIN Visits(Q) :
                             Visits(Q)[p] = s /\ \A x \in 1..(p - 1) : Visits(Q)[x] # s
    IN  \A Q \in Queries :
            LET r == search_by_keywords(index, Q)
            IN  /\ \A i, j \in DOMAIN r : i # j => r[i] # r[j]
                /\ Range(r) = {s \in IndexIds : Total(Q, s) > 0}
                /\ \A i, j \in DOMAIN r :
                      i < j => \/ Total(Q, r[i]) > Total(Q, r[j])
                               \/ /\ Total(Q, r[i]) = Total(Q, r[j])
                                  /\ FirstMet(Q, r[i]) < FirstMet(Q, r[j])

C20_Witness ==
    /\ last.op = "add_conversation"
    /\ Bucket(index, S_python) = {"s1", "s2"}
    /\ ScoreOf(index, <<S_python>>, "s1") = ScoreOf(index, <<S_python>>, "s2")
    /\ search_by_keywords(index, <<S_python>>) = <<"s2", "s1">>

\* C21: buckets are append-only under add_conversation.  A session that is in the
\* bucket of keyword k before a call of add_conversation is in it after the call,
\* whatever keyword list the call brings, and a search for k (a lower-cased keyword,
\* as the keywords of a saved conversation are) still returns the session.
C21_BucketsAppendOnly ==
    [][\A i \in DOMAIN index.keywords :
          \A s \in Range(index.keywords[i].v) :
             LET k == index.keywords[i].k
             IN  /\ s \in Bucket(index', k)
                 /\ Lower(k) = k => s \in Range(search_by_keywords(index', <<k>>))]_vars

C21_Witness ==
    /\ last.op = "add_conversation"
    /\ last.id = "s1"
    /\ last.keywords = <<S_python_programming>>
    /\ "s1" \in Bucket(index, S_python)
    /\ S_python \notin Range(index.conversations["s1"].keywords)
    /\ "s1" \in Range(search_by_keywords(index, <<S_python>>))

\* C30: in every state add_conversation calls lead to, the inverted map covers the
\* forward map and no bucket holds a session twice.  For every session s and every
\* keyword k of the forward entry of s, s is in the bucket of k, and the session ids
\* of a bucket are all different, however often a session is added again.
C30_ForwardCoveredNoDuplicates ==
    /\ \A s \in DOMAIN index.conversations :
          \A k \in Range(index.conversations[s].keywords) :
             \E i \in DOMAIN index.keywords :
                /\ index.keywords[i].k = k
                /\ \E p \in DOMAIN index.keywords[i].v : index.keywords[i].v[p] = s
    /\ \A i \in DOMAIN index.keywords :
          \A p, q \in DOMAIN index.keywords[i].v :
             p # q => index.keywords[i].v[p] # index.keywords[i].v[q]

C30_Witness ==
    /\ last.op = "add_conversation"
    /\ ops = MaxIndexOps
    /\ last.keywords = <<S_python, S_python>>
    /\ index.keywords = <<[k |-> S_python, v |-> <<"s1">>]>>
    /\ last.id = "s1"

(***************************************************************************)
(* The user profile on its own: a profile that is new or was read back     *)
(* from its JSON file, then any calls of its methods                       *)
(***************************************************************************)
MaxProfileOps == 2

PLast(op, before) == [op |-> op, before |-> before]

\* update_profile, with the dicts handed to it and the keys they can have
UpdateProfile ==
    /\ Called(MaxProfileOps)
    /\ \E n \in {None, Str(<<"A","n","n">>)},
          i \in {{}, {S_chess}, {S_chess, S_hiking}},
          s \in {{}, {S_ok}},
          q \in {{}, {[k |-> "theme", v |-> "dark"]}},
          has \in {{}, {"interests"}, {"skills"}, {"interests", "skills", "preferences"},
                   {"preferred_name", "interests", "skills", "preferences"}} :
          profile' = update_profile(profile,
                                    [preferred_name |-> n, interests |-> i, skills |-> s,
                                     preferences |-> q],
                                    has, now)
    /\ last' = PLast("update_profile", profile)
    /\ UNCHANGED <<files, mtime, current_session_file, profile_file, index_file, index, now,
                   permissions, temp_permissions, config_file, effects,
                   conversation_history,
                   session_file, search_results_cache, front_end>>

AddInterest ==
    /\ Called(MaxProfileOps)
    /\ \E interest \in Facts : profile' = add_interest(profile, interest, now)
    /\ last' = PLast("add_interest", profile)
    /\ UNCHANGED <<files, mtime, current_session_file, profile_file, index_file, index, now,
                   permissions, temp_permissions, config_file, effects,
                   conversation_history,
                   session_file, search_results_cache, front_end>>

AddSkill ==
    /\ Called(MaxProfileOps)
    /\ \E skill \in Facts : profile' = add_skill(profile, skill, now)
    /\ last' = PLast("add_skill", profile)
    /\ UNCHANGED <<files, mtime, current_session_file, profile_file, index_file, index, now,
                   permissions, temp_permissions, config_file, effects,
                   conversation_history,
                   session_file, search_results_cache, front_end>>

SetPreference ==
    /\ Called(MaxProfileOps)
    /\ \E value \in {"dark", "light"} : profile' = set_preference(profile, "theme", value, now)
    /\ last' = PLast("set_preference", profile)
    /\ UNCHANGED <<files, mtime, current_session_file, profile_file, index_file, index, now,
                   permissions, temp_permissions, config_file, effects,
                   conversation_history,
                   session_file, search_results_cache, front_end>>

\* the profile is stored with to_json_serializable and save_user_profile, and a new
\* process reads it back: UserProfileManager(load_user_profile()) keeps the lists
SaveAndReload ==
    /\ Called(MaxProfileOps)
    /\ \E data \in to_json_serializable(profile) :
          /\ profile_file' = WriteJson(profile_file, data, "none")
          /\ profile' = load_user_profile(profile_file').data
    /\ last' = PLast("reload", profile)
    /\ UNCHANGED <<files, mtime, current_session_file, index_file, index, now,
                   permissions, temp_permissions, config_file, effects,
                   conversation_history,
                   session_file, search_results_cache, front_end>>

\* UserProfileManager(profile_data): the data read from the profile file (its sets
\* are lists), or a new empty profile when there is none
ProfileInit ==
    /\ MemInit
    /\ now = 0
    /\ profile \in {_create_empty_profile(0)} \cup StoredProfiles
    /\ permissions = DefaultPermissions
    /\ temp_permissions = EmptyDict
    /\ config_file = Absent(DefaultPermissions)
    /\ effects = {}
    /\ conversation_history = <<>>
    /\ session_file = NoId
    /\ search_results_cache = {}
    /\ front_end = "cli"
    /\ ops = 0
    /\ last = PLast("init", profile)

ProfileNext ==
    \/ UpdateProfile
    \/ AddInterest
    \/ AddSkill
    \/ SetPreference
    \/ SaveAndReload
    \/ Tick

SpecProfile == ProfileInit /\ [][ProfileNext]_vars

(***************************************************************************)
(* Properties of the user profile                                          *)
(***************************************************************************)
\* C5: profile merge monotonicity.  Every update_profile, add_interest and add_skill
\* call leaves the interests and the skills a superset of what they were before the
\* call, whether the profile held them as sets or as the lists read from JSON.
C5_MergeMonotone ==
    [][last'.op \in {"update_profile", "add_interest", "add_skill"}
         => /\ Elems(profile.interests) \subseteq Elems(profile'.interests)
            /\ Elems(profile.skills) \subseteq Elems(profile'.skills)]_vars

C5_Witness ==
    /\ last.op = "update_profile"
    /\ last.before.interests.t = "list"
    /\ last.before.interests.l # <<>>
    /\ last.before.skills.s # {}
    /\ profile.interests.t = "set"
    /\ Elems(last.before.interests) \subseteq profile.interests.s
    /\ Elems(last.before.interests) # profile.interests.s
    /\ profile.skills = last.before.skills

(***************************************************************************)
(* The permission gate on its own (src/src/permission_manager.py,          *)
(* src/src/file_manager.py, src/src/app_launcher.py).  Here now counts     *)
(* minutes.                                                                *)
(***************************************************************************)
OperationTypes ==
    {"file_read", "file_write", "file_delete", "app_launch", "system_command",
     "internet_access"}

\* duration_minutes of the temporary permission
DurationMinutes == 5

MaxMinutes == 6

MaxGateOps == 2

\* a cleanup that removes nothing: a grant never expires
_cleanup_expired_permissions_never(temp, t) == temp

\* _cleanup_expired_permissions (lines 103-108)
_cleanup_expired_permissions(temp, t) ==
    Remove(temp, {k \in DOMAIN temp : t > temp[k].expiry})

\* check_permission (lines 78-88), on the temporary permissions left by the cleanup
check_permission(perms, temp, operation) ==
    IF operation \in DOMAIN temp THEN temp[operation].level
    ELSE IF operation \in DOMAIN perms THEN perms[operation]
    ELSE "DENY"

\* grant_temporary_permission (lines 97-101)
grant_temporary_permission(temp, operation, duration_minutes, t) ==
    Put(temp, operation, [level |-> "ALLOW", expiry |-> t + duration_minutes])

\* load_permissions (lines 36-49)
load_permissions(cf) == IF cf.kind = "dict" THEN cf.data ELSE DefaultPermissions

\* the confirmation callback handed over: none, or one that answers yes or no
Callbacks == {"none", "yes", "no"}

\* the file access or the process launch itself: it succeeds or raises
Outcomes == {"ok", "raises"}

\* an operation performed on the machine or the network
Effect(kind, what) == [kind |-> kind, what |-> what]

GLast(op, level, callback, performed, checked) ==
    [op |-> op, level |-> level, callback |-> callback, performed |-> performed,
     checked |-> checked, operation |-> "", granted |-> 0]

\* file_manager.py lines 19-27, 39-50, 65-76 and app_launcher.py lines 61-72: the
\* operation goes on past the gate
Proceeds(perm, callback) ==
    CASE perm = "DENY"                 -> FALSE
      [] perm = "REQUIRE_CONFIRMATION" -> callback = "yes"
      [] OTHER                         -> TRUE

\* read_file, write_file and delete_file: the check, the gate, then the file access
FileOperation(name, operation) ==
    /\ Called(MaxGateOps)
    /\ \E callback \in Callbacks, io \in Outcomes :
          LET live == _cleanup_expired_permissions(temp_permissions, now)
              perm == check_permission(permissions, live, operation)
              done == Proceeds(perm, callback) /\ io = "ok"
          IN  /\ temp_permissions' = live
              /\ effects' = IF done THEN effects \cup {Effect(operation, <<>>)} ELSE effects
              /\ last' = GLast(name, perm, callback, done, live)
    /\ UNCHANGED <<files, mtime, current_session_file, profile_file, index_file, index, now,
                   profile, permissions, config_file, conversation_history,
                   session_file, search_results_cache, front_end>>

ReadFile == FileOperation("read_file", "file_read")

WriteFile == FileOperation("write_file", "file_write")

DeleteFile == FileOperation("delete_file", "file_delete")

\* launch_app (lines 17-51)
LaunchApp ==
    /\ Called(MaxGateOps)
    /\ \E callback \in Callbacks, io \in Outcomes :
          LET live == _cleanup_expired_permissions(temp_permissions, now)
              perm == check_permission(permissions, live, "app_launch")
              proceeds == CASE perm = "DENY"                 -> FALSE
                            [] perm = "REQUIRE_CONFIRMATION" -> callback # "no"
                            [] OTHER                         -> TRUE
              done == proceeds /\ io = "ok"
          IN  /\ temp_permissions' =
                    IF perm = "REQUIRE_CONFIRMATION" /\ callback = "none"
                    THEN grant_temporary_permission(live, "app_launch", DurationMinutes, now)
                    ELSE live
              /\ effects' = IF done THEN effects \cup {Effect("app_launch", <<>>)} ELSE effects
              /\ last' = GLast("launch_app", perm, callback, done, live)
    /\ UNCHANGED <<files, mtime, current_session_file, profile_file, index_file, index, now,
                   profile, permissions, config_file, conversation_history,
                   session_file, search_results_cache, front_end>>

\* launch_by_name (lines 53-79): off Windows it returns before any check
LaunchByName ==
    /\ Called(MaxGateOps)
    /\ \E callback \in Callbacks, io \in Outcomes, platform \in {"win32", "linux"} :
          LET live == _cleanup_expired_permissions(temp_permissions, now)
              perm == check_permission(permissions, live, "app_launch")
              done == Proceeds(perm, callback) /\ io = "ok"
          IN  IF platform # "win32"
              THEN /\ last' = GLast("launch_by_name", "unchecked", callback, FALSE,
                                    temp_permissions)
                   /\ UNCHANGED <<temp_permissions, effects>>
              ELSE /\ temp_permissions' = live
                   /\ effects' = IF done THEN effects \cup {Effect("app_launch", <<>>)} ELSE effects
                   /\ last' = GLast("launch_by_name", perm, callback, done, live)
    /\ UNCHANGED <<files, mtime, current_session_file, profile_file, index_file, index, now,
                   profile, permissions, config_file, conversation_history,
                   session_file, search_results_cache, front_end>>

\* set_permission (lines 90-95) with save_permissions (lines 61-76)
SetPermission ==
    /\ Called(MaxGateOps)
    /\ \E operation \in OperationTypes, level \in {"DENY", "REQUIRE_CONFIRMATION", "ALLOW"},
          permanent \in BOOLEAN, fault \in {"none", "dump"} :
          /\ permissions' = Put(permissions, operation, level)
          /\ config_file' = IF permanent THEN WriteJson(config_file, permissions', fault)
                            ELSE config_file
          /\ ~permanent => fault = "none"
          /\ last' = [GLast("set_permission", level, "none", FALSE, temp_permissions)
                         EXCEPT !.operation = operation]
    /\ UNCHANGED <<files, mtime, current_session_file, profile_file, index_file, index, now,
                   profile, temp_permissions, effects, conversation_history,
                   session_file, search_results_cache, front_end>>

GrantTemporaryPermission ==
    /\ Called(MaxGateOps)
    /\ \E operation \in OperationTypes :
          /\ temp_permissions' =
                grant_temporary_permission(temp_permissions, operation, DurationMinutes, now)
          /\ last' = [GLast("grant_temporary_permission", "ALLOW", "none", FALSE,
                            temp_permissions')
                         EXCEPT !.operation = operation, !.granted = now]
    /\ UNCHANGED <<files, mtime, current_session_file, profile_file, index_file, index, now,
                   profile, permissions, config_file, effects, conversation_history,
                   session_file, search_results_cache, front_end>>

\* PermissionManager.__init__ (lines 29-34) in a new process
NewPermissionManager ==
    /\ Called(MaxGateOps)
    /\ permissions' = load_permissions(config_file)
    /\ temp_permissions' = EmptyDict
    /\ last' = GLast("__init__", "DENY", "none", FALSE, temp_permissions')
    /\ UNCHANGED <<files, mtime, current_session_file, profile_file, index_file, index, now,
                   profile, config_file, effects, conversation_history,
                   session_file, search_results_cache, front_end>>

\* a minute passes
Minute ==
    /\ now < MaxMinutes
    /\ now' = now + 1
    /\ UNCHANGED <<files, mtime, current_session_file, profile_file, index_file, index,
                   profile, permissions, temp_permissions, config_file, effects,
                   conversation_history,
                   session_file, search_results_cache, front_end, ops, last>>

GateInit ==
    /\ MemInit
    /\ RestInit
    /\ last = GLast("init", "DENY", "none", FALSE, temp_permissions)

GateNext ==
    \/ ReadFile
    \/ WriteFile
    \/ DeleteFile
    \/ LaunchApp
    \/ LaunchByName
    \/ SetPermission
    \/ GrantTemporaryPermission
    \/ NewPermissionManager
    \/ Minute

SpecGate == GateInit /\ [][GateNext]_vars

(***************************************************************************)
(* Properties of the permission gate                                       *)
(***************************************************************************)
\* C9: a gated operation whose check returned REQUIRE_CONFIRMATION, called without a
\* confirmation callback, is refused: the file access or process launch is not
\* performed, and the permission tables are what the check left.
C9_RefusedWithoutCallback ==
    (/\ last.op \in {"read_file", "write_file", "delete_file", "launch_app", "launch_by_name"}
     /\ last.level = "REQUIRE_CONFIRMATION"
     /\ last.callback = "none")
        => /\ ~last.performed
           /\ temp_permissions = last.checked

\* C26: a DENY that was set holds.  From set_permission(op, DENY) until the next call
\* of set_permission or grant_temporary_permission, check_permission(op) returns DENY
\* at every instant, also when a temporary grant for op was issued before the DENY.
C26_DenyHolds ==
    (last.op = "set_permission" /\ last.level = "DENY")
        => check_permission(permissions,
                            _cleanup_expired_permissions(temp_permissions, now),
                            last.operation) = "DENY"

\* C27: timed grants.  The call grant_temporary_permission(op, d) leaves the
\* permission table and the config file as they are and changes the answer of
\* check_permission for no operation but op.  From the call until the next call on
\* the permission manager, check_permission(op) returns ALLOW at every instant up to
\* the expiry time (the time of the call plus d) and the level of the permission
\* table (DENY for an operation the table does not hold) at every instant after it.
C27_TimedGrant ==
    [][LET answer(perms, temp, t, operation) ==
               check_permission(perms, _cleanup_expired_permissions(temp, t), operation)
           operation == last'.operation
       IN  (last'.op = "grant_temporary_permission")
              => /\ IF now' <= last'.granted + DurationMinutes
                    THEN answer(permissions', temp_permissions', now', operation) = "ALLOW"
                    ELSE answer(permissions', temp_permissions', now', operation)
                            = IF operation \in DOMAIN permissions'
                              THEN permissions'[operation] ELSE "DENY"
                 /\ ops' # ops
                       => /\ permissions' = permissions
                          /\ config_file' = config_file
                          /\ \A other \in OperationTypes \ {operation} :
                                answer(permissions', temp_permissions', now', other)
                                   = answer(permissions, temp_permissions, now, other)]_vars

C27_Witness ==
    /\ last.op = "grant_temporary_permission"
    /\ last.operation = "file_read"
    /\ last.granted = 0
    /\ now = MaxMinutes
    /\ check_permission(permissions, _cleanup_expired_permissions(temp_permissions, now),
                        "file_read") = "REQUIRE_CONFIRMATION"
    /\ check_permission(permissions, _cleanup_expired_permissions(temp_permissions, 0),
                        "file_read") = "ALLOW"

(***************************************************************************)
(* The chat turn: PersonalAIAssistant.process_user_input                   *)
(* (src/src/ai_assistant.py) and the chat input handler of                 *)
(* src/streamlit_app.py                                                    *)
(***************************************************************************)
RECURSIVE LStrip(_, _)
LStrip(s, chars) ==
    IF s # <<>> /\ Head(s) \in chars THEN LStrip(Tail(s), chars) ELSE s

RECURSIVE RStrip(_, _)
RStrip(s, chars) ==
    IF s # <<>> /\ s[Len(s)] \in chars THEN RStrip(SubSeq(s, 1, Len(s) - 1), chars) ELSE s

\* str.strip(chars)
StripChars(s, chars) == RStrip(LStrip(s, chars), chars)

\* str.strip(): blanks, newlines and tabs are removed
Strip(s) == StripChars(s, {" ", "\n", "\t"})

\* p occurs in s at position i; str.startswith is the case i = 1
StartsAt(s, i, p) == i + Len(p) - 1 <= Len(s) /\ SubSeq(s, i, i + Len(p) - 1) = p

\* str.replace(sub, ""): the occurrences of sub are removed, left to right
RECURSIVE RemoveAll(_, _)
RemoveAll(s, sub) ==
    IF Len(s) < Len(sub) THEN s
    ELSE IF StartsAt(s, 1, sub) THEN RemoveAll(SubSeq(s, Len(sub) + 1, Len(s)), sub)
    ELSE <<Head(s)>> \o RemoveAll(Tail(s), sub)

\* any(keyword in text for keyword in keywords)
AnyIn(keywords, text) == \E keyword \in keywords : IsSubstr(keyword, text)

\* _should_perform_internet_search (lines 99-110)
_should_perform_internet_search(message) ==
    LET keywords ==
            {<<"s","e","a","r","c","h"," ","t","h","e"," ","i","n","t","e","r","n","e","t">>,
             <<"l","o","o","k"," ","u","p">>,
             <<"f","i","n","d"," ","o","n","l","i","n","e">>,
             <<"l","e","t"," ","m","e"," ","s","e","a","r","c","h">>,
             <<"l","e","t"," ","m","e"," ","l","o","o","k"," ","u","p">>,
             <<"l","e","t"," ","m","e"," ","c","h","e","c","k"," ","o","n","l","i","n","e">>}
    IN  AnyIn(keywords, Lower(message))

\* ([^.!?\n]+) from position i: the longest run of such characters
RECURSIVE RunFrom(_, _)
RunFrom(s, i) ==
    IF i > Len(s) \/ s[i] \in {".", "!", "?", "\n"} THEN <<>>
    ELSE <<s[i]>> \o RunFrom(s, i + 1)

NoQuery == [found |-> FALSE, query |-> <<>>]

Query(q) == [found |-> TRUE, query |-> q]

\* re.search(pattern, message, re.IGNORECASE): the group of the leftmost match.  A
\* pattern is given by heads, the literal texts it can match before its group
\* ([^.!?\n]+), in the order the regex engine tries them.
PatternSearch(message, heads) ==
    LET message_lower == Lower(message)
        HeadMatches(i, h) ==
            StartsAt(message_lower, i, h) /\ RunFrom(message, i + Len(h)) # <<>>
        hits == {i \in 1..Len(message) : \E k \in DOMAIN heads : HeadMatches(i, heads[k])}
    IN  IF hits = {} THEN NoQuery
        ELSE LET i == CHOOSE x \in hits : \A y \in hits : x <= y
                 ks == {k \in DOMAIN heads : HeadMatches(i, heads[k])}
                 k == CHOOSE x \in ks : \A y \in ks : x <= y
             IN  Query(RunFrom(message, i + Len(heads[k])))

\* re.findall(r'"([^"]+)"|\'([^\']+)\'', message)[0]: the text between the first
\* quote character that has a partner and that partner
Quoted(message) ==
    LET closes(i) == {j \in (i + 2)..Len(message) : message[j] = message[i]}
        opens == {i \in 1..Len(message) :
                     /\ message[i] \in {"\"", "'"}
                     /\ i < Len(message) /\ message[i + 1] # message[i]
                     /\ closes(i) # {}}
    IN  IF opens = {} THEN NoQuery
        ELSE LET i == CHOOSE x \in opens : \A y \in opens : x <= y
                 j == CHOOSE x \in closes(i) : \A y \in closes(i) : x <= y
             IN  Query(SubSeq(message, i + 1, j - 1))

\* _extract_search_query (lines 37-64); NoQuery is None.  Each pattern of lines
\* 49-53 is written as the heads it can match, an optional part tried present
\* before absent; the query of a match is cleaned as in lines 57-59.
_extract_search_query(message) ==
    LET \* search(?:ing)?(?: the internet)?(?: for)? ([^.!?\n]+)
        SearchHeads ==
            <<<<"s","e","a","r","c","h","i","n","g"," ","t","h","e"," ","i","n","t","e","r","n","e","t"," ","f","o","r"," ">>,
              <<"s","e","a","r","c","h","i","n","g"," ","t","h","e"," ","i","n","t","e","r","n","e","t"," ">>,
              <<"s","e","a","r","c","h","i","n","g"," ","f","o","r"," ">>,
              <<"s","e","a","r","c","h","i","n","g"," ">>,
              <<"s","e","a","r","c","h"," ","t","h","e"," ","i","n","t","e","r","n","e","t"," ","f","o","r"," ">>,
              <<"s","e","a","r","c","h"," ","t","h","e"," ","i","n","t","e","r","n","e","t"," ">>,
              <<"s","e","a","r","c","h"," ","f","o","r"," ">>,
              <<"s","e","a","r","c","h"," ">>>>
        \* look(?:ing)? up ([^.!?\n]+)
        LookUpHeads == <<<<"l","o","o","k","i","n","g"," ","u","p"," ">>, <<"l","o","o","k"," ","u","p"," ">>>>
        \* find(?:ing)? ([^.!?\n]+)
        FindHeads == <<<<"f","i","n","d","i","n","g"," ">>, <<"f","i","n","d"," ">>>>
        CleanQuery(group) ==
            Strip(RemoveAll(RemoveAll(Strip(group), <<"i","n","t","e","r","n","e","t">>),
                            <<"o","n","l","i","n","e">>))
        quoted == Quoted(message)
        searched == PatternSearch(message, SearchHeads)
        looked_up == PatternSearch(message, LookUpHeads)
        found == PatternSearch(message, FindHeads)
        stripped == Strip(message)
    IN  IF quoted.found THEN Query(Strip(quoted.query))
        ELSE IF searched.found THEN Query(CleanQuery(searched.query))
        ELSE IF looked_up.found THEN Query(CleanQuery(looked_up.query))
        ELSE IF found.found THEN Query(CleanQuery(found.query))
        ELSE IF stripped # <<>> /\ stripped[Len(stripped)] = "?" THEN Query(stripped)
        ELSE NoQuery

\* the default wake word (line 128)
wake_word == <<"a","i">>

\* what the user types: "i'm in Oslo.", "run diagnostic", the wake word,
\* "Who are you?", "tell me about cats", "search cats"
UserInputs ==
    {<<"i","'","m"," ","i","n"," ","O","s","l","o",".">>,
     <<"r","u","n"," ","d","i","a","g","n","o","s","t","i","c">>,
     wake_word,
     <<"W","h","o"," ","a","r","e"," ","y","o","u","?">>,
     <<"t","e","l","l"," ","m","e"," ","a","b","o","u","t"," ","c","a","t","s">>,
     <<"s","e","a","r","c","h"," ","c","a","t","s">>}

\* what the language model answers: nothing, "ok", a plain sentence, and sentences
\* that announce a search
Replies ==
    {<<>>,
     <<"o","k">>,
     <<"c","a","t","s"," ","a","r","e"," ","s","m","a","l","l"," ","f","u","r","r","y"," ","a","n","i","m","a","l","s">>,
     <<"L","e","t"," ","m","e"," ","s","e","a","r","c","h"," ","t","h","e"," ","i","n","t","e","r","n","e","t"," ","f","o","r"," ","c","a","t","s">>,
     <<"i"," ","w","i","l","l"," ","l","o","o","k"," ","u","p"," ","'","C","a","t","s","'"," ","f","o","r"," ","y","o","u">>,
     <<"l","e","t"," ","m","e"," ","c","h","e","c","k"," ","o","n","l","i","n","e"," ","w","h","a","t"," ","c","a","t","s"," ","e","a","t">>,
     <<"l","e","t"," ","m","e"," ","s","e","a","r","c","h"," ","t","h","e"," ","i","n","t","e","r","n","e","t"," ","o","n","l","i","n","e","."," ","o","n","e"," ","m","o","m","e","n","t"," ">>}

\* client.messages.create raises (no network, no key, an API error)
Raises == <<"raises">>

MaxChatOps == 2

\* the last turn: fault is the write that failed, error the exception raised in the
\* turn, escaped whether it left the handler, completed whether the request/response
\* pair was appended, calls the number of calls of the language model, learning the
\* "Enable learning" setting
CLast(op, user_input, reply, checked, requested) ==
    [op |-> op, user_input |-> user_input, reply |-> reply, checked |-> checked,
     requested |-> requested, fault |-> "none", error |-> "none", escaped |-> FALSE,
     completed |-> FALSE, calls |-> 0, learning |-> FALSE, load_last_session |-> FALSE]

\* the file _save_conversation_history writes: the bare list of messages
ListFile(M) ==
    [kind |-> "list", timestamp |-> 0, session_id |-> NoId,
     messages |-> JsonMessages(M), message_count |-> 0]

\* lines 252-254: the location a location phrase introduces, when the input starts
\* with one
LocationOf(user_input) ==
    LET location_phrases ==
            <<<<"m","y"," ","l","o","c","a","t","i","o","n"," ","i","s"," ">>,
              <<"i","'","m"," ","i","n"," ">>,
              <<"i"," ","a","m"," ","i","n"," ">>,
              <<"i"," ","l","i","v","e"," ","i","n"," ">>,
              <<"i","'","m"," ","a","t"," ">>,
              <<"i"," ","a","m"," ","a","t"," ">>>>
        ks == {k \in DOMAIN location_phrases :
                  StartsAt(Lower(user_input), 1, location_phrases[k])}
        k  == CHOOSE x \in ks : \A y \in ks : x <= y
    IN  IF ks = {} THEN NoQuery
        ELSE Query(StripChars(Strip(SubSeq(user_input, Len(location_phrases[k]) + 1,
                                           Len(user_input))),
                              {".", "!"}))

\* lines 259-295: the input is answered without the language model
AnsweredLocally(user_input) ==
    LET normalized_input == Lower(Strip(user_input))
        diagnostic_phrases ==
            {<<"r","u","n"," ","d","i","a","g","n","o","s","t","i","c">>,
             <<"d","e","v","i","c","e"," ","d","i","a","g","n","o","s","t","i","c">>,
             <<"s","y","s","t","e","m"," ","d","i","a","g","n","o","s","t","i","c">>,
             <<"c","h","e","c","k"," ","m","y"," ","d","e","v","i","c","e">>,
             <<"c","h","e","c","k"," ","t","h","i","s"," ","c","o","m","p","u","t","e","r">>,
             <<"r","u","n"," ","a"," ","h","e","a","l","t","h"," ","c","h","e","c","k">>,
             <<"r","u","n"," ","s","y","s","t","e","m"," ","c","h","e","c","k">>,
             <<"r","u","n"," ","h","a","r","d","w","a","r","e"," ","c","h","e","c","k">>,
             <<"r","u","n"," ","s","y","s","t","e","m"," ","d","i","a","g","n","o","s","t","i","c">>,
             <<"r","u","n"," ","d","e","v","i","c","e"," ","c","h","e","c","k">>}
        who_phrases ==
            {<<"w","h","o"," ","a","r","e"," ","y","o","u">>,
             <<"w","h","a","t"," ","a","r","e"," ","y","o","u">>,
             <<"w","h","o"," ","i","s"," ","a","u","g","i">>,
             <<"w","h","a","t"," ","i","s"," ","a","u","g","i">>,
             <<"t","e","l","l"," ","m","e"," ","a","b","o","u","t"," ","y","o","u","r","s","e","l","f">>,
             <<"y","o","u","r"," ","n","a","m","e">>,
             <<"i","n","t","r","o","d","u","c","e"," ","y","o","u","r","s","e","l","f">>}
    IN  \/ AnyIn(diagnostic_phrases, normalized_input)
        \/ normalized_input = wake_word
        \/ AnyIn(who_phrases, normalized_input)

\* lines 326-334: the query process_user_input hands to internet_search, if any
SearchQueryOf(assistant_message) ==
    LET search_query == _extract_search_query(assistant_message)
    IN  IF Len(Split(assistant_message)) < 5 THEN NoQuery
        ELSE IF ~_should_perform_internet_search(assistant_message) THEN NoQuery
        ELSE IF search_query.query = <<>> THEN NoQuery
        ELSE search_query

\* process_user_input (lines 249-352), called by the loop of chat (lines 112-126);
\* reply is what the language model does, fault the write of
\* _save_conversation_history (line 302 or line 323) that fails, if any.  The
\* conversation is saved in the session file (_get_session_file_path, lines
\* 178-188).  WebSearcher.search (web_searcher.py lines 19-49) sends a request
\* unless the query is blank or its results are cached.  An exception raised by
\* a write or by client.messages.create is caught neither here nor in chat, whose
\* except clause (line 124) names KeyboardInterrupt and EOFError only: it ends the
\* loop and the program.
process_user_input(user_input, reply, fault) ==
    LET location == LocationOf(user_input)
        turn(said, requested, calls, completed, escaped) ==
            [CLast("process_user_input", user_input, said, "none", requested)
                EXCEPT !.fault = fault, !.calls = calls, !.completed = completed,
                       !.escaped = escaped,
                       !.error = IF ~escaped THEN "none"
                                 ELSE IF fault # "none" THEN "OSError" ELSE "APIError"]
    IN
    IF location.found
    THEN /\ fault = "none"
         /\ profile' = [profile EXCEPT !.location = Str(location.query)]
         /\ last' = turn(<<>>, FALSE, 0, FALSE, FALSE)
         /\ UNCHANGED <<files, mtime, conversation_history, session_file,
                        search_results_cache, effects, front_end>>
    ELSE IF AnsweredLocally(user_input)
    THEN /\ fault = "none"
         /\ last' = turn(<<>>, FALSE, 0, FALSE, FALSE)
         /\ UNCHANGED <<files, mtime, conversation_history, session_file,
                        search_results_cache, effects, profile, front_end>>
    ELSE LET name == IF session_file # NoId THEN session_file ELSE strftime(now)
             asked == Append(conversation_history, Msg("user", Str(user_input)))
             assistant_message == Strip(reply)
             answered == Append(asked, Msg("assistant", Str(assistant_message)))
             search == SearchQueryOf(assistant_message)
             sends == /\ search.found
                      /\ Strip(search.query) # <<>>
                      /\ Lower(search.query) \notin search_results_cache
         IN  /\ session_file' = name
             /\ UNCHANGED profile
             /\ IF fault \in {"first_open", "first_dump"}
                THEN \* line 302 raises
                     /\ conversation_history' = asked
                     /\ files' = IF fault = "first_open" THEN files
                                 ELSE Put(files, name, TruncatedFile)
                     /\ mtime' = IF fault = "first_open" THEN mtime ELSE Touch(mtime, name)
                     /\ front_end' = "exited"
                     /\ last' = turn(<<>>, FALSE, 0, FALSE, TRUE)
                     /\ UNCHANGED <<search_results_cache, effects>>
                ELSE IF reply = Raises
                THEN \* line 310 raises
                     /\ fault = "none"
                     /\ conversation_history' = asked
                     /\ files' = Put(files, name, ListFile(asked))
                     /\ mtime' = Touch(mtime, name)
                     /\ front_end' = "exited"
                     /\ last' = turn(reply, FALSE, 1, FALSE, TRUE)
                     /\ UNCHANGED <<search_results_cache, effects>>
                ELSE IF fault \in {"second_open", "second_dump"}
                THEN \* line 323 raises
                     /\ conversation_history' = answered
                     /\ files' = IF fault = "second_open" THEN Put(files, name, ListFile(asked))
                                 ELSE Put(files, name, TruncatedFile)
                     /\ mtime' = Touch(mtime, name)
                     /\ front_end' = "exited"
                     /\ last' = turn(reply, FALSE, 1, FALSE, TRUE)
                     /\ UNCHANGED <<search_results_cache, effects>>
                ELSE /\ conversation_history' = answered
                     /\ files' = Put(files, name, ListFile(answered))
                     /\ mtime' = Touch(mtime, name)
                     /\ search_results_cache' =
                           IF sends THEN search_results_cache \cup {Lower(search.query)}
                           ELSE search_results_cache
                     /\ effects' =
                           IF sends
                           THEN effects \cup {Effect("internet_access", search.query)}
                           ELSE effects
                     /\ front_end' = front_end
                     /\ last' = turn(reply, sends, 1, TRUE, FALSE)

\* one pass of the loop of chat (lines 115-126)
ProcessUserInput(inputs, replies, faults, bound) ==
    /\ front_end = "cli"
    /\ Called(bound)
    /\ \E user_input \in inputs, reply \in replies, fault \in faults :
          process_user_input(user_input, reply, fault)
    /\ UNCHANGED <<current_session_file, profile_file, index_file, index, now, permissions,
                   temp_permissions, config_file>>

\* every message is read, whatever its role
Authored_any(message) == TRUE

\* line 79: the messages the user wrote
Authored(message) == message.role = "user"

\* extract_from_conversation (user_profile.py lines 35-110): the name, the interests,
\* the skills and the mentions found in the user messages.  What follows a keyword is
\* content_lower.split(keyword)[1][:50].strip().split('.')[0].strip(), kept when it
\* has more than two characters.
extract_from_conversation(history) ==
    LET interest_keywords ==
            {<<"i"," ","l","i","k","e">>, <<"i"," ","l","o","v","e">>, <<"i"," ","e","n","j","o","y">>, <<"i","n","t","e","r","e","s","t","e","d"," ","i","n">>, <<"h","o","b","b","y">>,
             <<"p","a","s","s","i","o","n">>, <<"f","a","s","c","i","n","a","t","e","d">>, <<"e","n","t","h","u","s","i","a","s","t">>, <<"f","a","n"," ","o","f">>, <<"i","n","t","o">>}
        skill_keywords ==
            {<<"i"," ","k","n","o","w">>, <<"i"," ","c","a","n">>, <<"i","'","m"," ","g","o","o","d"," ","a","t">>, <<"e","x","p","e","r","t","i","s","e">>, <<"s","k","i","l","l","e","d"," ","i","n">>,
             <<"e","x","p","e","r","i","e","n","c","e","d"," ","w","i","t","h">>, <<"p","r","o","f","i","c","i","e","n","t">>, <<"m","a","s","t","e","r">>, <<"e","x","p","e","r","t">>}
        name_phrases ==
            <<<<"m","y"," ","n","a","m","e"," ","i","s"," ">>, <<"i"," ","a","m"," ">>, <<"i","'","m"," ">>, <<"c","a","l","l"," ","m","e"," ">>, <<"y","o","u"," ","c","a","n"," ","c","a","l","l"," ","m","e"," ">>,
              <<"p","e","o","p","l","e"," ","c","a","l","l"," ","m","e"," ">>>>
        Letters == {"A","B","C","D","E","F","G","H","I","J","K","L","M",
                    "N","O","P","Q","R","S","T","U","V","W","X","Y","Z"}
        isalpha(w) == w # <<>> /\ \A i \in 1..Len(w) :
                                     \E u \in Letters : Lower(<<u>>) = Lower(<<w[i]>>)
        capitalize(w) ==
            <<CHOOSE u \in Letters : Lower(<<u>>) = Lower(<<w[1]>>)>> \o Lower(Tail(w))
        First(S) == CHOOSE x \in S : \A y \in S : x <= y
        Following(content_lower, keyword) ==
            LET at == First({i \in 1..Len(content_lower) : StartsAt(content_lower, i, keyword)})
                rest == SubSeq(content_lower, at + Len(keyword), Len(content_lower))
                again == {i \in 1..Len(rest) : StartsAt(rest, i, keyword)}
                part == IF again = {} THEN rest ELSE SubSeq(rest, 1, First(again) - 1)
                cut == Strip(SubSeq(part, 1, Min(50, Len(part))))
                dots == {i \in 1..Len(cut) : cut[i] = "."}
            IN  Strip(IF dots = {} THEN cut ELSE SubSeq(cut, 1, First(dots) - 1))
        authored == SelectSeq(history, Authored)
        contents == {Lower(Strip(authored[i].content.v)) : i \in DOMAIN authored}
        Learned(keywords) ==
            {x \in UNION {{Following(c, k) : k \in {w \in keywords : IsSubstr(w, c)}} :
                             c \in contents} : Len(x) > 2}
        \* lines 83-88: the name after the phrase, kept when it is a word of letters
        name_candidate(content, phrase) ==
            LET content_lower == Lower(content)
                idx == First({i \in 1..Len(content_lower) : StartsAt(content_lower, i, phrase)})
                      + Len(phrase)
            IN  StripChars(Split(SubSeq(content, idx, Len(content)))[1],
                           {".", " ", ",", "!", "?"})
        RECURSIVE Named(_, _, _)
        Named(name, i, p) ==
            IF i > Len(authored) THEN name
            ELSE IF p > Len(name_phrases) THEN Named(name, i + 1, 1)
            ELSE LET content == Strip(authored[i].content.v)
                     candidate == name_candidate(content, name_phrases[p])
                 IN  IF IsSubstr(name_phrases[p], Lower(content))
                        /\ isalpha(candidate) /\ Len(candidate) > 1
                     THEN Named(Str(capitalize(candidate)), i, p + 1)
                     ELSE Named(name, i, p + 1)
        \* lines 106-110: the word that follows "my", "i've" or "i'm"
        Mentioned(c) ==
            LET words == Split(c)
            IN  IF IsSubstr(<<"m","y">>, c) \/ IsSubstr(<<"i">>, c)
                THEN {words[i + 1] : i \in {j \in 1..(Len(words) - 1) :
                                               words[j] \in {<<"m","y">>, <<"i","'","v","e">>, <<"i","'","m">>}}}
                ELSE {}
    IN  [interests |-> Learned(interest_keywords), skills |-> Learned(skill_keywords),
         preferences |-> {}, mentions |-> UNION {Mentioned(c) : c \in contents},
         preferred_name |-> Named(None, 1, 1)]

\* The chat input handler of streamlit_app.py (lines 303-393).  Line 330 calls
\* check_permission with two arguments; the method takes one, so the call raises
\* TypeError before the method runs.  Line 392 catches what lines 322-390 raise.
\* The handler writes no file, and what extract_from_conversation returns (lines
\* 388-390) is assigned to nothing: the profile is left as it was.
ChatInput(inputs, replies, bound) ==
    /\ front_end = "streamlit"
    /\ Called(bound)
    /\ \E user_input \in inputs, reply \in replies, enable_learning \in BOOLEAN :
          LET asked == Append(conversation_history, Msg("user", Str(user_input)))
              search_keywords ==
                  {<<"s","e","a","r","c","h">>, <<"f","i","n","d">>, <<"l","o","o","k"," ","u","p">>, <<"w","e","a","t","h","e","r">>, <<"n","e","w","s">>, <<"w","h","a","t","'","s">>}
              should_search == AnyIn(search_keywords, Lower(user_input))
              relevant_convs == get_relevant_conversations(files, mtime, index, user_input, 2)
              answered == Append(asked, Msg("assistant", Str(reply)))
              turn(said, checked, error, calls, completed) ==
                  [CLast("chat_input", user_input, said, checked, FALSE)
                      EXCEPT !.error = error, !.calls = calls, !.completed = completed,
                             !.learning = enable_learning]
          IN  IF should_search
              THEN /\ conversation_history' = asked
                   /\ last' = turn(<<>>, "TypeError", "TypeError", 0, FALSE)
              ELSE IF relevant_convs.raised
              THEN /\ conversation_history' = asked
                   /\ last' = turn(<<>>, "none", "AttributeError", 0, FALSE)
              ELSE IF reply = Raises
              THEN /\ conversation_history' = asked
                   /\ last' = turn(reply, "none", "APIError", 1, FALSE)
              ELSE IF reply = <<>>
              THEN /\ conversation_history' = asked
                   /\ last' = turn(reply, "none", "none", 1, FALSE)
              ELSE /\ conversation_history' = answered
                   /\ last' = turn(reply, "none", "none", 1, TRUE)
    /\ UNCHANGED <<files, mtime, current_session_file, profile_file, index_file, index, now,
                   profile, permissions, temp_permissions, config_file, effects,
                   session_file, search_results_cache, front_end>>

\* the "Save conversation" button of streamlit_app.py (lines 208-213)
SaveConversationButton(faults, bound) ==
    /\ front_end = "streamlit"
    /\ Called(bound)
    /\ \E fault \in faults : save_conversation(conversation_history, session_file, fault)
    /\ UNCHANGED <<now, profile, permissions, temp_permissions, config_file, effects,
                   conversation_history, session_file, search_results_cache, front_end>>

\* init_session_state (streamlit_app.py lines 120-156) in a new browser session
init_session_state(bound) ==
    /\ Called(bound)
    /\ front_end' = "streamlit"
    /\ conversation_history' = <<>>
    /\ session_file' = strftime(now)
    /\ profile' = _create_empty_profile(now)
    /\ permissions' = load_permissions(config_file)
    /\ temp_permissions' = EmptyDict
    /\ search_results_cache' = {}
    /\ index' = ConversationIndex(index_file)
    /\ last' = CLast("init_session_state", <<>>, <<>>, "none", FALSE)
    /\ UNCHANGED <<files, mtime, current_session_file, profile_file, index_file, now,
                   config_file, effects>>

\* _load_conversation_history (lines 190-230): the messages of the file whose name
\* sorts last, sorted(glob(...), reverse=True)[0].  The generated names sort by
\* their time, and below the names that start with a letter.
_load_conversation_history(fs) ==
    LET NameRank(name) ==
            IF \E t \in 0..MaxTime : name = strftime(t)
            THEN CHOOSE t \in 0..MaxTime : name = strftime(t)
            ELSE MaxTime + 1
        LastByName == CHOOSE n \in DOMAIN fs : \A m \in DOMAIN fs : NameRank(m) <= NameRank(n)
    IN  IF DOMAIN fs = {} THEN [conversation_history |-> <<>>, session_file |-> NoId]
        ELSE IF fs[LastByName].kind \in {"list", "dict"}
             THEN [conversation_history |-> fs[LastByName].messages,
                   session_file |-> LastByName]
        ELSE [conversation_history |-> <<>>, session_file |-> NoId]

\* UserProfileManager(profile_data) (user_profile.py lines 10-16)
UserProfileManager(pf, t) ==
    IF pf.kind = "dict" THEN pf.data ELSE _create_empty_profile(t)

\* PersonalAIAssistant.__init__ (lines 128-176) in a new process.  load_last_session
\* is a parameter (line 129) that no line of the class reads: line 175 calls
\* _load_conversation_history whatever it is.
NewPersonalAIAssistant(loads, bound) ==
    /\ Called(bound)
    /\ front_end' = "cli"
    /\ permissions' = load_permissions(config_file)
    /\ temp_permissions' = EmptyDict
    /\ search_results_cache' = {}
    /\ index' = ConversationIndex(index_file)
    /\ profile' = UserProfileManager(profile_file, now)
    /\ conversation_history' = _load_conversation_history(files).conversation_history
    /\ session_file' = _load_conversation_history(files).session_file
    /\ \E load_last_session \in loads :
          last' = [CLast("__init__", <<>>, <<>>, "none", FALSE)
                      EXCEPT !.load_last_session = load_last_session]
    /\ UNCHANGED <<files, mtime, current_session_file, profile_file, index_file, now,
                   config_file, effects>>

ChatInit ==
    /\ MemInit
    /\ now = 0
    /\ profile = _create_empty_profile(0)
    /\ permissions = DefaultPermissions
    /\ temp_permissions = EmptyDict
    /\ config_file = Absent(DefaultPermissions)
    /\ effects = {}
    /\ conversation_history = <<>>
    /\ front_end \in {"cli", "streamlit"}
    /\ session_file = IF front_end = "streamlit" THEN strftime(0) ELSE NoId
    /\ search_results_cache = {}
    /\ ops = 0
    /\ last = CLast("init", <<>>, <<>>, "none", FALSE)

ChatNext ==
    \/ ProcessUserInput(UserInputs, Replies \cup {Raises}, {"none"}, MaxChatOps)
    \/ ChatInput(UserInputs, Replies \cup {Raises}, MaxChatOps)
    \/ NewPersonalAIAssistant({FALSE}, MaxChatOps)
    \/ Tick

SpecChat == ChatInit /\ [][ChatNext]_vars

(***************************************************************************)
(* The two programs over one memory directory: main.py and streamlit_app.py *)
(* started in src/, a few short inputs, and writes that fail                *)
(***************************************************************************)
\* what the user types: "I like hiking", "i can code"
AppInputs == {<<"I"," ","l","i","k","e"," ","h","i","k","i","n","g">>, <<"i"," ","c","a","n"," ","c","o","d","e">>}

\* what the language model does: it answers "Nice!", or the call raises
AppReplies == {<<"N","i","c","e","!">>, Raises}

MaxAppOps == 3

AppNext ==
    \/ ProcessUserInput(AppInputs, AppReplies,
                        {"none", "first_open", "first_dump", "second_open", "second_dump"},
                        MaxAppOps)
    \/ ChatInput(AppInputs, AppReplies, MaxAppOps)
    \/ SaveConversationButton({"none"}, MaxAppOps)
    \/ NewPersonalAIAssistant(BOOLEAN, MaxAppOps)
    \/ init_session_state(MaxAppOps)
    \/ Tick

SpecApp == ChatInit /\ [][AppNext]_vars

(***************************************************************************)
(* Properties of the two programs over one memory directory                *)
(***************************************************************************)
\* C11: load_conversation(id) never raises.  It returns the messages when a record
\* is stored under id, and the not-found result when no file is stored under id or
\* the file is malformed (truncated, or JSON that is no record, such as a list).
C11_LoadNeverRaises ==
    \A id \in (DOMAIN files) \cup SessionIds :
        /\ ~load_conversation(files, id).raised
        /\ load_conversation(files, id) =
              IF id \in DOMAIN files /\ files[id].kind = "dict"
              THEN Found(files[id].messages) ELSE NotFound

\* C12: a malformed file never aborts a batch operation.  search_conversations and
\* get_relevant_conversations do not raise, and return what they return when the
\* malformed files (truncated, or JSON that is no record) are not there.
C12_BatchSkipsMalformed ==
    LET valid == {n \in DOMAIN files : files[n].kind = "dict"}
        records == Remove(files, (DOMAIN files) \ valid)
        kept(names) == SelectSeq(names, LAMBDA n : n \in valid)
    IN  \A keyword \in {<<"h","i","k","i","n","g">>, <<"c","o","d","e">>, <<"l","i","k","e">>}, limit \in 1..MaxLimit :
            /\ \A names \in ListsOf(DOMAIN files) :
                  /\ ~search_conversations(files, names, keyword, limit, <<>>).raised
                  /\ search_conversations(files, names, keyword, limit, <<>>)
                        = search_conversations(records, kept(names), keyword, limit, <<>>)
            /\ ~get_relevant_conversations(files, mtime, index, keyword, limit).raised
            /\ get_relevant_conversations(files, mtime, index, keyword, limit)
                  = get_relevant_conversations(records, kept(mtime), index, keyword, limit)

\* C13: a write of the conversation that fails during a turn is not fatal to the
\* chat.  The user's message stays in the transcript, the failure does not leave
\* the turn handler, and the program goes on taking input.
C13_PersistenceFailureContained ==
    (last.op \in {"process_user_input", "chat_input"} /\ last.fault # "none")
        => /\ Msg("user", Str(last.user_input)) \in Range(conversation_history)
           /\ ~last.escaped
           /\ front_end # "exited"

\* C14: when the call of the language model fails during a turn, the failure does
\* not leave the turn handler, the program goes on taking input, and the model was
\* called once for that input.
C14_ModelFailureSurfaced ==
    (last.op \in {"process_user_input", "chat_input"} /\ last.reply = Raises)
        => /\ ~last.escaped
           /\ front_end # "exited"
           /\ last.calls = 1

\* C15: after every completed request/response pair, the record stored under the
\* current session id holds the whole transcript, and the index holds a forward
\* entry for that session id with the keywords of the transcript.
C15_TurnRecorded ==
    (last.op \in {"process_user_input", "chat_input"} /\ last.completed)
        => /\ session_file \in DOMAIN files
           /\ files[session_file].kind = "dict"
           /\ files[session_file].messages = JsonMessages(conversation_history)
           /\ session_file \in DOMAIN index.conversations
           /\ Range(index.conversations[session_file].keywords)
                 = KeywordSet(conversation_history)

\* C16: with learning enabled, after each completed turn every interest and skill the
\* extraction pass returns for the conversation is in the profile in memory and in
\* the stored user_profile.json.
C16_LearnedFactsPersisted ==
    (last.op = "chat_input" /\ last.completed /\ last.learning)
        => LET extracted == extract_from_conversation(conversation_history)
               stored == IF profile_file.kind = "dict" THEN profile_file.data ELSE NoProfile
           IN  /\ extracted.interests \subseteq Elems(profile.interests)
               /\ extracted.skills \subseteq Elems(profile.skills)
               /\ extracted.interests \subseteq Elems(stored.interests)
               /\ extracted.skills \subseteq Elems(stored.skills)

\* C25: an assistant constructed with load_last_session=False starts a new session.
\* Its transcript is empty, so no message of a stored session is in
\* conversation_history, and it holds no session file that exists already, so its
\* first save overwrites none.
C25_NewSessionWhenNotLoading ==
    (last.op = "__init__" /\ ~last.load_last_session)
        => /\ conversation_history = <<>>
           /\ session_file \notin DOMAIN files

\* C28: the transcript alternates.  In every state, whatever turns were taken and
\* whichever of them failed or were answered without the model, the messages of
\* conversation_history are user, assistant, user, ... in strict alternation,
\* starting with user.
C28_RolesAlternate ==
    \A i \in DOMAIN conversation_history :
        conversation_history[i].role = IF i % 2 = 1 THEN "user" ELSE "assistant"

(***************************************************************************)
(* extract_from_conversation on its own: any transcript of up to MaxHistory *)
(* messages of either role is handed to it                                  *)
(***************************************************************************)
MaxHistory == 2

\* the transcripts: messages of the user and of the assistant saying "I'm Bob",
\* "i like chess", "i can code" or "I'm Bob. i can code"
ExtractHistories ==
    LET said == {<<"I","'","m"," ","B","o","b">>, <<"i"," ","l","i","k","e"," ","c","h","e","s","s">>, <<"i"," ","c","a","n"," ","c","o","d","e">>, <<"I","'","m"," ","B","o","b","."," ","i"," ","c","a","n"," ","c","o","d","e">>}
        messages == {Msg(role, Str(content)) : role \in {"user", "assistant"}, content \in said}
    IN  UNION {[1..n -> messages] : n \in 0..MaxHistory}

\* the call of streamlit_app.py lines 388-390
ExtractFromConversation ==
    /\ last.op = "init"
    /\ last' = [op |-> "extract_from_conversation",
                extracted |-> extract_from_conversation(conversation_history)]
    /\ UNCHANGED <<files, mtime, current_session_file, profile_file, index_file, index, now,
                   profile, permissions, temp_permissions, config_file, effects,
                   conversation_history, session_file, search_results_cache, front_end,
                   ops>>

ExtractInit ==
    /\ MemInit
    /\ now = 0
    /\ profile = _create_empty_profile(0)
    /\ permissions = DefaultPermissions
    /\ temp_permissions = EmptyDict
    /\ config_file = Absent(DefaultPermissions)
    /\ effects = {}
    /\ conversation_history \in ExtractHistories
    /\ session_file = strftime(0)
    /\ search_results_cache = {}
    /\ front_end = "streamlit"
    /\ ops = 0
    /\ last = [op |-> "init", extracted |-> extract_from_conversation(<<>>)]

SpecExtract == ExtractInit /\ [][ExtractFromConversation]_vars

\* C24: extraction reads the user's turns only.  Whatever extract_from_conversation
\* returned for a transcript (name, interests, skills, mentions), it returns the same
\* for every transcript whose user messages are the same in the same order, whatever
\* the assistant messages of either transcript say.
C24_UserTurnsOnly ==
    (last.op = "extract_from_conversation")
        => LET users(H) == SelectSeq(H, LAMBDA message : message.role = "user")
               mine == users(conversation_history)
           IN  \A H \in ExtractHistories :
                  users(H) = mine => extract_from_conversation(H) = last.extracted

C24_Witness ==
    /\ last.op = "extract_from_conversation"
    /\ conversation_history = <<Msg("assistant", Str(<<"i"," ","l","i","k","e"," ","c","h","e","s","s">>)),
                                Msg("user", Str(<<"I","'","m"," ","B","o","b","."," ","i"," ","c","a","n"," ","c","o","d","e">>))>>
    /\ last.extracted = [interests |-> {}, skills |-> {<<"c","o","d","e">>}, preferences |-> {},
                         mentions |-> {<<"b","o","b",".">>}, preferred_name |-> Str(<<"B","o","b">>)]

(***************************************************************************)
(* Properties of the chat turn                                             *)
(***************************************************************************)
\* C10: a turn that sends a web search request has first checked the permission for
\* INTERNET_ACCESS, and the check did not yield DENY.
C10_SearchOnlyAfterCheck ==
    last.requested => last.checked \in {"REQUIRE_CONFIRMATION", "ALLOW"}

====
